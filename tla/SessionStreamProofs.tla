------------------------ MODULE SessionStreamProofs ------------------------
(* Proofs about SessionStream, for any lines Pi may write, in any number,   *)
(* and any capacities of channel, network and pipe.                         *)
EXTENDS SessionStream, SequenceTheorems, TLAPS

---------------------------------------------------------------------------
(* The invariant. An event is on its way to the client in the channel, in   *)
(* the handler's hands and in the network, in this order.                   *)

Rising(s) == \A j, k \in DOMAIN s : j < k => s[j] < s[k]
In(s, n) == \E k \in DOMAIN s : s[k] = n

\* What has been handed to the network, and that with what may still be.
Written(n) == In(received, n) \/ In(outbox, n)
Coming(n) == Written(n) \/ (frame # 0 /\ frame = n) \/ In(chan, n)

\* Events stay in order, within a place and from one to the next.
InOrder ==
    /\ Rising(received) /\ Rising(outbox) /\ Rising(chan)
    /\ \A m, n : In(received, m) /\ In(outbox, n) => m < n
    /\ \A m : Written(m) /\ frame # 0 => m < frame
    /\ \A m, n : (Written(m) \/ (frame # 0 /\ frame = m)) /\ In(chan, n) => m < n
    /\ \A n : Coming(n) => n \in 1..Len(lines)
    /\ latest =< Len(lines)

Event(n) == EventsOf(lines[n]) # <<>>

\* Nothing is on its way that is not the event of a line.
OnlyEvents == \A n : Coming(n) => Event(n)

\* No event is missing between two that were written, unless one was missed.
WrittenWhole ==
    missed \/ \A m, n \in 1..Len(lines), k \in 1..Len(lines) :
        Written(m) /\ Written(n) /\ m < k /\ k < n /\ Event(k) => Written(k)

\* While the handler goes on, none is missing on the whole way, nor, while the
\* channel is registered, from its end to what Pi writes next.
Going == handler \in {"subscribe", "select", "write"}
ComingWhole ==
    Going => missed \/ \A m, k \in 1..Len(lines) :
        /\ Coming(m) /\ m < k /\ Event(k)
        /\ registered \/ \E n \in 1..Len(lines) : Coming(n) /\ k < n
        => Coming(k)

NothingYet == handler = "subscribe" => ~registered /\ \A n : ~Coming(n)

Held == InOrder /\ OnlyEvents /\ WrittenWhole /\ ComingWhole /\ NothingYet
IInv == TypeOK /\ Held

---------------------------------------------------------------------------
(* Types.                                                                   *)

\* The connection has just been upgraded: nothing was written, sent or read.
LEMMA TypeInit == ASSUME Init PROVE TypeOK
<1>0. \A S : <<>> \in Seq(S) /\ Len(<<>>) = 0
  OBVIOUS
<1>1. /\ 0 =< MaxLines /\ 0 =< SubBuf /\ 0 =< NetCap /\ 0 =< StdinCap
      /\ 0 \in 0..MaxLines /\ 0 \in 0..MaxSent
  BY StreamAssumption
<1>2. PiType
  <2>1. lines = <<>> /\ asking = FALSE /\ pi = "running" /\ stdin = <<>>
        /\ aborting = FALSE /\ aborted = FALSE
    BY DEF Init
  <2> QED BY <1>0, <1>1, <2>1 DEF PiType
<1>3. ChannelType
  <2>1. registered = FALSE /\ closed = FALSE /\ missed = FALSE /\ chan = <<>> /\ latest = 0
        /\ shut = FALSE /\ done = FALSE /\ watcher = "none"
    BY DEF Init, Sub!Init
  <2> QED BY <1>0, <1>1, <2>1 DEF ChannelType
<1>4. ServerType
  <2>1. handler = "subscribe" /\ frame = 0 /\ ctxDone = FALSE /\ conn = "open"
        /\ reader = "none" /\ message = "none"
    BY DEF Init
  <2>2. handler = "write" <=> frame # 0
    BY <2>1
  <2> QED BY <1>1, <2>1, <2>2 DEF ServerType
<1>5. ClientType
  <2>1. client = "here" /\ inbox = <<>> /\ outbox = <<>> /\ sent = 0 /\ received = <<>>
        /\ owes = FALSE
    BY DEF Init
  <2> QED BY <1>0, <1>1, <2>1 DEF ClientType
<1> QED BY <1>2, <1>3, <1>4, <1>5 DEF TypeOK

\* Ending the subscription, whoever does it.
LEMMA TypeUnsubscribe == ASSUME ChannelType, Unsubscribe, UNCHANGED <<shut, done, watcher>>
                         PROVE ChannelType'
BY DEF ChannelType, Unsubscribe, Sub!End, channelVars

\* Every step of the handler, and of the subscription's watcher.
LEMMA TypeHandler == ASSUME TypeOK, HandlerStep \/ WatcherFires PROVE TypeOK'
<1>0. PiType /\ ChannelType /\ ServerType /\ ClientType
  BY DEF TypeOK
<1> USE DEF Become, piVars, subVars, handlerVars, readerVars, clientVars
<1>1. CASE Subscribe
  <2>1. ChannelType'
    BY <1>0, <1>1 DEF Subscribe, Sub!Open, ChannelType
  <2> QED BY <1>0, <1>1, <2>1 DEF Subscribe, TypeOK, PiType, ServerType, ClientType
<1>2. CASE SelectEvent
  <2>1. /\ chan # <<>> /\ chan' = Tail(chan) /\ frame' = Head(chan)
        /\ chan \in Seq(Numbers) /\ Len(chan) =< SubBuf
        /\ UNCHANGED <<registered, closed, missed, latest, shut, done, watcher>>
    BY <1>0, <1>2 DEF SelectEvent, Sub!Take, ChannelType
  <2>2. /\ Head(chan) \in Numbers /\ Tail(chan) \in Seq(Numbers)
        /\ Len(Tail(chan)) = Len(chan) - 1 /\ Len(chan) \in Nat /\ SubBuf \in Nat
    BY <2>1, HeadTailProperties, StreamAssumption
  <2>3. ChannelType'
    BY <1>0, <2>1, <2>2 DEF ChannelType
  <2>4. ServerType'
    BY <1>0, <1>2, <2>1, <2>2, StreamAssumption DEF SelectEvent, ServerType, Numbers
  <2> QED BY <1>0, <1>2, <2>3, <2>4 DEF SelectEvent, TypeOK, PiType, ClientType
<1>3. CASE SelectEnd \/ HandlerCancels \/ HandlerCloses
  <2>1. ServerType'
    BY <1>0, <1>3 DEF SelectEnd, HandlerCancels, CancelContext, HandlerCloses, ServerType
  <2>2. UNCHANGED <<piVars, subVars, clientVars>>
    BY <1>3 DEF SelectEnd, HandlerCancels, HandlerCloses
  <2> QED BY <1>0, <2>1, <2>2 DEF TypeOK, PiType, ChannelType, ClientType, channelVars
<1>4. CASE WriteFrame
  <2>1. ServerType'
    BY <1>0, <1>4, StreamAssumption DEF WriteFrame, ServerType
  <2>2. frame \in Numbers
    BY <1>0, <1>4, StreamAssumption DEF WriteFrame, ServerType, Numbers
  <2>3. ClientType'
    <3>1. CASE Len(outbox) < NetCap /\ outbox' = Append(outbox, frame)
      <4>1. outbox' \in Seq(Numbers) /\ Len(outbox') = Len(outbox) + 1 /\ Len(outbox) \in Nat
        BY <1>0, <2>2, <3>1 DEF ClientType
      <4> QED BY <1>0, <1>4, <3>1, <4>1, StreamAssumption DEF WriteFrame, ClientType
    <3>2. CASE UNCHANGED outbox
      BY <1>0, <1>4, <3>2 DEF WriteFrame, ClientType
    <3> QED BY <1>4, <3>1, <3>2 DEF WriteFrame, NetworkTakes
  <2> QED BY <1>0, <1>4, <2>1, <2>3 DEF WriteFrame, TypeOK, PiType, ChannelType, channelVars
<1>5. CASE HandlerUnsubscribes
  <2>1. ChannelType'
    BY <1>0, <1>5, TypeUnsubscribe DEF HandlerUnsubscribes
  <2> QED BY <1>0, <1>5, <2>1 DEF HandlerUnsubscribes, TypeOK, PiType, ServerType, ClientType
<1>6. CASE WatcherFires
  <2>1. ChannelType'
    BY <1>0, <1>6 DEF WatcherFires, ChannelType, Unsubscribe, Sub!End, channelVars
  <2> QED BY <1>0, <1>6, <2>1 DEF WatcherFires, TypeOK, PiType, ServerType, ClientType
<1> QED BY <1>1, <1>2, <1>3, <1>4, <1>5, <1>6 DEF HandlerStep

\* The reader reads, passes on and waits.
LEMMA TypeReader == ASSUME TypeOK, ReaderStep PROVE TypeOK'
<1>0. PiType /\ ChannelType /\ ServerType /\ ClientType
  BY DEF TypeOK
<1> USE DEF piVars, subVars, handlerVars, readerVars, clientVars, channelVars
<1>1. CASE ReadMessage
  <2>1. inbox \in Seq(Messages) /\ inbox # <<>> /\ inbox' = Tail(inbox)
    BY <1>0, <1>1 DEF ReadMessage, ClientType
  <2>2. inbox' \in Seq(Messages)
    BY <2>1, HeadTailProperties
  <2>3. ClientType'
    BY <1>0, <1>1, <2>2 DEF ReadMessage, ClientType
  <2>4. ServerType'
    BY <1>0, <1>1 DEF ReadMessage, ServerType
  <2> QED BY <1>0, <1>1, <2>3, <2>4 DEF ReadMessage, TypeOK, PiType, ChannelType
<1>2. CASE ReadFails
  BY <1>0, <1>2 DEF ReadFails, TypeOK, PiType, ChannelType, ServerType, ClientType
<1>3. CASE WriteMessage
  <2>1. message \in Forwarded
    BY <1>0, <1>3 DEF WriteMessage, ServerType
  <2>2. PiType'
    <3>1. CASE Len(stdin) < StdinCap /\ stdin' = Append(stdin, message)
      <4>1. stdin' \in Seq(Forwarded) /\ Len(stdin') = Len(stdin) + 1 /\ Len(stdin) \in Nat
        BY <1>0, <2>1, <3>1 DEF PiType
      <4> QED BY <1>0, <1>3, <3>1, <4>1, StreamAssumption DEF WriteMessage, PiType
    <3>2. CASE UNCHANGED stdin
      BY <1>0, <1>3, <3>2 DEF WriteMessage, PiType
    <3> QED BY <1>3, <3>1, <3>2 DEF WriteMessage, PassOn, PipeHasRoom
  <2>3. ServerType'
    BY <1>0, <1>3 DEF WriteMessage, ServerType
  <2> QED BY <1>0, <1>3, <2>2, <2>3 DEF WriteMessage, TypeOK, ChannelType, ClientType
<1>4. CASE AbortReturns
  <2>1. PiType' /\ ServerType'
    BY <1>0, <1>4 DEF AbortReturns, PiType, ServerType
  <2> QED BY <1>0, <1>4, <2>1 DEF AbortReturns, TypeOK, ChannelType, ClientType
<1> QED BY <1>1, <1>2, <1>3, <1>4 DEF ReaderStep

\* Pi writes a line, which the channel gets, misses or never hears of.
LEMMA TypePiWrites == ASSUME TypeOK, NEW l \in PiLines, PiWrites(l) PROVE TypeOK'
<1>0. PiType /\ ChannelType /\ ServerType /\ ClientType
  BY DEF TypeOK
<1>1. PiType'
  <2>1. lines' \in Seq(PiLines) /\ Len(lines') = Len(lines) + 1 /\ Len(lines) \in Nat
    BY <1>0 DEF PiWrites, PiType
  <2> QED BY <1>0, <2>1, StreamAssumption DEF PiWrites, PiType
<1>2. ChannelType'
  <2> DEFINE n == Len(lines) + 1
  <2>1. n \in Numbers /\ n \in 0..MaxLines
    BY <1>0, StreamAssumption DEF PiWrites, PiType, Numbers
  <2>2. UNCHANGED <<shut, done, watcher>>
    BY DEF PiWrites
  <2>3. CASE UNCHANGED channelVars
    BY <1>0, <2>2, <2>3 DEF channelVars, ChannelType
  <2>4. CASE Sub!Offer(n)
    <3> HIDE DEF n
    <3>1. /\ latest' = n /\ UNCHANGED <<registered, closed>> /\ missed' \in BOOLEAN
          /\ chan' = IF registered /\ Len(chan) < SubBuf THEN Append(chan, n) ELSE chan
      BY <2>4 DEF Sub!Offer
    <3>2. chan' \in Seq(Numbers) /\ Len(chan') =< SubBuf
      BY <1>0, <2>1, <3>1, StreamAssumption DEF ChannelType
    <3> QED BY <1>0, <2>1, <2>2, <3>1, <3>2 DEF ChannelType
  <2> QED BY <2>3, <2>4 DEF PiWrites
<1> QED BY <1>0, <1>1, <1>2 DEF PiWrites, TypeOK, ServerType, ClientType, handlerVars, readerVars,
                              clientVars

\* The other steps of Pi, of Close and of waitLoop.
LEMMA TypePi ==
    ASSUME TypeOK, PiTakes \/ PiAnswersAbort \/ PiExits \/ Close \/ Drain
    PROVE TypeOK'
<1>0. PiType /\ ChannelType /\ ServerType /\ ClientType
  BY DEF TypeOK
<1> USE DEF piVars, subVars, handlerVars, readerVars, clientVars, channelVars
<1>1. CASE PiTakes
  <2>1. stdin \in Seq(Forwarded) /\ stdin # <<>> /\ stdin' = Tail(stdin) /\ Len(stdin) =< StdinCap
    BY <1>0, <1>1 DEF PiTakes, PiType
  <2>2. stdin' \in Seq(Forwarded) /\ Len(stdin') =< StdinCap
    BY <2>1, HeadTailProperties, StreamAssumption
  <2>3. aborting' \in BOOLEAN /\ asking' \in BOOLEAN
    BY <1>1 DEF PiTakes
  <2>4. PiType'
    BY <1>0, <1>1, <2>2, <2>3 DEF PiTakes, PiType
  <2> QED BY <1>0, <1>1, <2>4 DEF PiTakes, TypeOK, ChannelType, ServerType, ClientType
<1>2. CASE PiAnswersAbort \/ PiExits
  <2>1. \A S : <<>> \in Seq(S) /\ Len(<<>>) = 0
    OBVIOUS
  <2>2. PiType'
    <3>1. CASE PiAnswersAbort
      <4>1. aborting' = FALSE /\ aborted' \in BOOLEAN /\ UNCHANGED <<lines, asking, pi, stdin>>
        BY <3>1 DEF PiAnswersAbort
      <4> QED BY <1>0, <4>1 DEF PiType
    <3>2. CASE PiExits
      <4>1. /\ pi' = "exited" /\ stdin' = <<>> /\ aborting' = FALSE /\ asking' = FALSE
            /\ UNCHANGED <<lines, aborted>>
        BY <3>2 DEF PiExits
      <4>2. 0 =< StdinCap
        BY StreamAssumption
      <4> QED BY <1>0, <2>1, <4>1, <4>2 DEF PiType
    <3> QED BY <1>2, <3>1, <3>2
  <2>3. UNCHANGED <<subVars, handlerVars, readerVars, clientVars>>
    BY <1>2 DEF PiAnswersAbort, PiExits
  <2> QED BY <1>0, <2>2, <2>3 DEF TypeOK, ChannelType, ServerType, ClientType
<1>3. CASE Close \/ Drain
  <2>1. ChannelType'
    BY <1>0, <1>3 DEF Close, Drain, Unsubscribe, Sub!End, ChannelType
  <2>2. UNCHANGED <<piVars, handlerVars, readerVars, clientVars>>
    BY <1>3 DEF Close, Drain
  <2> QED BY <1>0, <2>1, <2>2 DEF TypeOK, PiType, ServerType, ClientType
<1> QED BY <1>1, <1>2, <1>3

\* The client and the network.
LEMMA TypeClient == ASSUME TypeOK, ClientStep \/ NetworkNotices PROVE TypeOK'
<1>0. PiType /\ ChannelType /\ ServerType /\ ClientType
  BY DEF TypeOK
<1>1. ASSUME NEW m \in Chatter, ClientSends(m) PROVE ClientType'
  <2>1. inbox' \in Seq(Messages)
    BY <1>0, <1>1 DEF ClientSends, ClientType, Messages
  <2> QED BY <1>0, <1>1, <2>1, StreamAssumption DEF ClientSends, ClientType
<1>2. ASSUME ClientReceives PROVE ClientType'
  <2>1. outbox \in Seq(Numbers) /\ outbox # <<>> /\ outbox' = Tail(outbox) /\ Len(outbox) =< NetCap
        /\ received \in Seq(Numbers) /\ received' = Append(received, Head(outbox))
    BY <1>0, <1>2 DEF ClientReceives, ClientType
  <2>2. Head(outbox) \in Numbers /\ outbox' \in Seq(Numbers) /\ Len(outbox') =< NetCap
    BY <2>1, HeadTailProperties, StreamAssumption
  <2>3. received' \in Seq(Numbers)
    BY <2>1, <2>2
  <2>4. owes' \in BOOLEAN /\ UNCHANGED <<client, inbox, sent>>
    BY <1>2 DEF ClientReceives
  <2> QED BY <1>0, <2>2, <2>3, <2>4 DEF ClientType
<1>3. ASSUME ClientResponds PROVE ClientType'
  <2>1. inbox' \in Seq(Messages)
    BY <1>0, <1>3 DEF ClientResponds, ClientType, Messages, Forwarded
  <2>2. owes' = FALSE /\ UNCHANGED <<client, outbox, sent, received>>
    BY <1>3 DEF ClientResponds
  <2> QED BY <1>0, <2>1, <2>2 DEF ClientType
<1>4. ASSUME ClientLeaves PROVE ClientType'
  <2>1. client' = "gone" /\ UNCHANGED <<inbox, outbox, sent, received, owes>>
    BY <1>4 DEF ClientLeaves
  <2> QED BY <1>0, <2>1 DEF ClientType
<1>5. ASSUME ClientStep PROVE ClientType' /\ UNCHANGED <<piVars, subVars, handlerVars, readerVars>>
  <2>1. UNCHANGED <<piVars, subVars, handlerVars, readerVars>>
    BY <1>5 DEF ClientStep, ClientSends, ClientReceives, ClientResponds, ClientLeaves
  <2> QED BY <1>1, <1>2, <1>3, <1>4, <1>5, <2>1 DEF ClientStep
<1>6. CASE ClientStep
  BY <1>0, <1>5, <1>6 DEF TypeOK, PiType, ChannelType, ServerType, piVars, subVars, channelVars,
                          handlerVars, readerVars
<1>7. CASE NetworkNotices
  BY <1>0, <1>7 DEF NetworkNotices, TypeOK, PiType, ChannelType, ServerType, ClientType, piVars,
                    subVars, channelVars, readerVars, clientVars
<1> QED BY <1>6, <1>7

\* Every step keeps the types.
LEMMA TypeNext == ASSUME TypeOK, [Next]_vars PROVE TypeOK'
<1>1. CASE Finished \/ UNCHANGED vars
  BY <1>1 DEF Finished, vars, TypeOK, PiType, ChannelType, ServerType, ClientType, piVars, subVars,
              handlerVars, readerVars, clientVars, channelVars
<1> QED BY <1>1, TypeHandler, TypeReader, TypePiWrites, TypePi, TypeClient DEF Next, PiStep

---------------------------------------------------------------------------
(* What a sequence holds, when its first element is taken and when one is   *)
(* put behind the last.                                                     *)

\* The head is before the rest, and what was in the sequence is one or the other.
LEMMA TailHolds ==
    ASSUME NEW s \in Seq(Int), s # <<>>, Rising(s)
    PROVE  /\ Rising(Tail(s))
           /\ \A n : In(s, n) <=> n = Head(s) \/ In(Tail(s), n)
           /\ \A n : In(Tail(s), n) => Head(s) < n
<1>1. /\ Len(s) \in Nat /\ Len(s) > 0 /\ Head(s) = s[1] /\ DOMAIN s = 1..Len(s)
      /\ DOMAIN Tail(s) = 1..Len(s) - 1
      /\ \A k \in 1..Len(s) - 1 : Tail(s)[k] = s[k + 1]
  BY HeadTailProperties, EmptySeq, LenProperties
<1>2. \A k \in 1..Len(s) : s[k] \in Int
  OBVIOUS
<1>3. Rising(Tail(s))
  <2> SUFFICES ASSUME NEW j \in 1..Len(s) - 1, NEW k \in 1..Len(s) - 1, j < k
               PROVE  Tail(s)[j] < Tail(s)[k]
    BY <1>1 DEF Rising
  <2>1. j + 1 \in DOMAIN s /\ k + 1 \in DOMAIN s /\ j + 1 < k + 1
    BY <1>1
  <2>2. s[j + 1] < s[k + 1]
    BY <2>1 DEF Rising
  <2> QED BY <1>1, <2>2
<1>4. ASSUME NEW n PROVE In(s, n) <=> n = Head(s) \/ In(Tail(s), n)
  <2>1. ASSUME In(s, n) PROVE n = Head(s) \/ In(Tail(s), n)
    <3>1. PICK k \in 1..Len(s) : s[k] = n
      BY <1>1, <2>1 DEF In
    <3>2. CASE k = 1
      BY <1>1, <3>1, <3>2
    <3>3. CASE k # 1
      <4>1. k - 1 \in 1..Len(s) - 1 /\ (k - 1) + 1 = k
        BY <1>1, <3>1, <3>3
      <4>2. Tail(s)[k - 1] = n
        BY <1>1, <3>1, <4>1
      <4> QED BY <1>1, <4>1, <4>2 DEF In
    <3> QED BY <3>2, <3>3
  <2>2. ASSUME n = Head(s) PROVE In(s, n)
    <3>1. 1 \in DOMAIN s
      BY <1>1
    <3> QED BY <1>1, <2>2, <3>1 DEF In
  <2>3. ASSUME In(Tail(s), n) PROVE In(s, n)
    <3>1. PICK k \in 1..Len(s) - 1 : Tail(s)[k] = n
      BY <1>1, <2>3 DEF In
    <3>2. k + 1 \in DOMAIN s /\ s[k + 1] = n
      BY <1>1, <3>1
    <3> QED BY <3>2 DEF In
  <2> QED BY <2>1, <2>2, <2>3
<1>5. ASSUME NEW n, In(Tail(s), n) PROVE Head(s) < n
  <2>1. PICK k \in 1..Len(s) - 1 : Tail(s)[k] = n
    BY <1>1, <1>5 DEF In
  <2>2. 1 \in DOMAIN s /\ k + 1 \in DOMAIN s /\ 1 < k + 1
    BY <1>1, <2>1
  <2>3. s[1] < s[k + 1]
    BY <2>2 DEF Rising
  <2> QED BY <1>1, <2>1, <2>3
<1> QED BY <1>3, <1>4, <1>5

\* One that comes after all in the sequence is put behind them.
LEMMA AppendHolds ==
    ASSUME NEW s \in Seq(Int), NEW x \in Int, Rising(s), \A n : In(s, n) => n < x
    PROVE  /\ Rising(Append(s, x))
           /\ \A n : In(Append(s, x), n) <=> In(s, n) \/ n = x
<1> DEFINE t == Append(s, x)
<1>1. /\ Len(s) \in Nat /\ DOMAIN s = 1..Len(s) /\ DOMAIN t = 1..Len(s) + 1
      /\ t[Len(s) + 1] = x
      /\ \A k \in 1..Len(s) : t[k] = s[k] /\ In(s, s[k])
  BY AppendProperties, LenProperties DEF In
<1> HIDE DEF t
<1>2. Rising(t)
  <2> SUFFICES ASSUME NEW j \in 1..Len(s) + 1, NEW k \in 1..Len(s) + 1, j < k
               PROVE  t[j] < t[k]
    BY <1>1 DEF Rising
  <2>1. j \in 1..Len(s)
    BY <1>1
  <2>2. CASE k = Len(s) + 1
    BY <1>1, <2>1, <2>2
  <2>3. CASE k # Len(s) + 1
    <3>1. k \in 1..Len(s)
      BY <1>1, <2>3
    <3>2. s[j] < s[k]
      BY <1>1, <2>1, <3>1 DEF Rising
    <3> QED BY <1>1, <2>1, <3>1, <3>2
  <2> QED BY <2>2, <2>3
<1>3. ASSUME NEW n PROVE In(t, n) <=> In(s, n) \/ n = x
  <2>1. In(t, n) <=> \E k \in 1..Len(s) + 1 : t[k] = n
    BY <1>1 DEF In
  <2>2. In(s, n) <=> \E k \in 1..Len(s) : t[k] = n
    BY <1>1 DEF In
  <2>3. \A k : k \in 1..Len(s) + 1 <=> k \in 1..Len(s) \/ k = Len(s) + 1
    BY <1>1
  <2> QED BY <1>1, <2>1, <2>2, <2>3
<1> QED BY <1>2, <1>3 DEF t

\* A sequence of numbers of events is one of integers.
LEMMA NumbersAreIntegers == TypeOK => /\ received \in Seq(Int) /\ outbox \in Seq(Int) /\ chan \in Seq(Int)
                             /\ frame \in Int /\ Len(lines) \in Nat
BY StreamAssumption DEF TypeOK, PiType, ChannelType, ServerType, ClientType, Numbers

---------------------------------------------------------------------------
(* The steps.                                                               *)

eventVars == <<lines, received, outbox, frame, chan, latest>>

\* A step that moves no event may end the subscription or the handler's loop.
LEMMA NothingMoves ==
    ASSUME Held, UNCHANGED <<eventVars, missed>>, registered' => registered, Going' => Going,
           handler' = "subscribe" => handler = "subscribe"
    PROVE  Held'
BY DEF Held, eventVars, InOrder, OnlyEvents, WrittenWhole, ComingWhole, NothingYet, Coming,
       Written, Event

\* The subscription begins with nothing on its way.
LEMMA SubscribeHolds == ASSUME IInv, Subscribe PROVE Held'
<1>1. /\ \A n : ~Coming(n)
      /\ UNCHANGED <<lines, received, outbox, frame, chan, latest, missed>>
      /\ handler' = "select"
  BY DEF IInv, Held, NothingYet, Subscribe, Become, Sub!Open, piVars, clientVars
<1>2. \A n : ~Coming(n)'
  BY <1>1 DEF Coming, Written
<1>3. InOrder' /\ WrittenWhole'
  BY <1>1 DEF IInv, Held, InOrder, WrittenWhole, Coming, Written, Event
<1> QED BY <1>1, <1>2, <1>3 DEF Held, OnlyEvents, ComingWhole, NothingYet

\* The event goes from the channel into the handler's hands.
LEMMA SelectHolds == ASSUME IInv, SelectEvent PROVE Held'
<1>1. /\ handler = "select" /\ handler' = "write" /\ frame = 0 /\ frame' = Head(chan) /\ frame' # 0
      /\ chan # <<>> /\ chan' = Tail(chan) /\ chan \in Seq(Int) /\ frame' \in Int
      /\ UNCHANGED <<lines, received, outbox, latest, missed, registered>>
  <2>1. frame' \in Numbers
    BY HeadTailProperties DEF IInv, TypeOK, ChannelType, SelectEvent, Sub!Take
  <2> QED BY <2>1, NumbersAreIntegers DEF IInv, TypeOK, ServerType, SelectEvent, Become, Sub!Take,
                                      piVars, clientVars, Numbers
<1>2. /\ Rising(chan')
      /\ \A n : In(chan, n) <=> n = frame' \/ In(chan', n)
      /\ \A n : In(chan', n) => frame' < n
  BY <1>1, TailHolds DEF IInv, Held, InOrder
<1>3. \A n : (Written(n)' <=> Written(n)) /\ (Coming(n)' <=> Coming(n))
  BY <1>1, <1>2 DEF Written, Coming
<1>4. InOrder'
  <2>1. \A m : Written(m) => m < frame'
    BY <1>1, <1>2 DEF IInv, Held, InOrder
  <2>2. \A m, n : (Written(m) \/ m = frame') /\ In(chan', n) => m < n
    BY <1>2 DEF IInv, Held, InOrder
  <2> QED BY <1>1, <1>2, <1>3, <2>1, <2>2 DEF IInv, Held, InOrder
<1>5. WrittenWhole'
  BY <1>1, <1>3 DEF IInv, Held, WrittenWhole, Event
<1>6. ComingWhole'
  BY <1>1, <1>3 DEF IInv, Held, ComingWhole, Event, Going
<1>7. OnlyEvents'
  BY <1>1, <1>3 DEF IInv, Held, OnlyEvents, Event
<1> QED BY <1>1, <1>4, <1>5, <1>6, <1>7 DEF Held, NothingYet

\* The network takes the frame, or the handler drops it and takes no other.
LEMMA WriteHolds == ASSUME IInv, WriteFrame PROVE Held'
<1>1. /\ handler = "write" /\ frame # 0 /\ frame \in 1..Len(lines) /\ frame \in Int /\ frame' = 0
      /\ UNCHANGED <<lines, received, chan, latest, missed, registered>>
  BY NumbersAreIntegers DEF IInv, Held, InOrder, Coming, TypeOK, ServerType, WriteFrame,
                            piVars, subVars, channelVars
<1>2. CASE outbox' = Append(outbox, frame) /\ handler' = "select"
  <2>1. outbox \in Seq(Int) /\ Rising(outbox) /\ \A n : In(outbox, n) => n < frame
    BY <1>1, NumbersAreIntegers DEF IInv, Held, InOrder, Written
  <2>2. Rising(outbox') /\ \A n : In(outbox', n) <=> In(outbox, n) \/ n = frame
    BY <1>1, <1>2, <2>1, AppendHolds
  <2>3. \A n : (Written(n)' <=> Written(n) \/ n = frame) /\ (Coming(n)' <=> Coming(n))
    BY <1>1, <2>2 DEF Written, Coming
  <2>4. InOrder'
    <3>1. \A m, n : In(received, m) /\ In(outbox', n) => m < n
      BY <1>1, <2>2 DEF IInv, Held, InOrder, Written
    <3>2. \A m, n : Written(m)' /\ In(chan, n) => m < n
      BY <1>1, <2>3 DEF IInv, Held, InOrder
    <3> QED BY <1>1, <2>2, <2>3, <3>1, <3>2 DEF IInv, Held, InOrder
  <2>5. WrittenWhole'
    <3> SUFFICES ASSUME ~missed, NEW m \in 1..Len(lines), NEW n \in 1..Len(lines),
                        NEW k \in 1..Len(lines),
                        Written(m)', Written(n)', m < k, k < n, Event(k)
                 PROVE  Written(k)'
      BY <1>1 DEF WrittenWhole, Event
    <3>1. Coming(m) /\ Coming(n)
      BY <1>1, <2>3 DEF Coming
    <3>2. Coming(k)
      BY <1>1, <3>1 DEF IInv, Held, ComingWhole, Going
    <3>3. ~In(chan, k)
      <4>1. Written(n) \/ n = frame
        BY <2>3
      <4>2. ~(k < n /\ n < k)
        OBVIOUS
      <4> QED BY <1>1, <4>1, <4>2 DEF IInv, Held, InOrder
    <3> QED BY <2>3, <3>2, <3>3 DEF Coming
  <2>6. ComingWhole'
    BY <1>1, <2>3 DEF IInv, Held, ComingWhole, Event, Going
  <2>7. OnlyEvents'
    BY <1>1, <2>3 DEF IInv, Held, OnlyEvents, Event
  <2> QED BY <1>2, <2>4, <2>5, <2>6, <2>7 DEF Held, NothingYet
<1>3. CASE UNCHANGED outbox /\ handler' = "unsubscribe"
  <2>1. \A n : (Written(n)' <=> Written(n)) /\ (Coming(n)' => Coming(n))
    BY <1>1, <1>3 DEF Written, Coming
  <2>2. InOrder'
    BY <1>1, <1>3, <2>1 DEF IInv, Held, InOrder
  <2>3. WrittenWhole'
    BY <1>1, <2>1 DEF IInv, Held, WrittenWhole, Event
  <2>4. OnlyEvents'
    BY <1>1, <2>1 DEF IInv, Held, OnlyEvents, Event
  <2> QED BY <1>3, <2>2, <2>3, <2>4 DEF Held, ComingWhole, Going, NothingYet
<1> QED BY <1>2, <1>3 DEF WriteFrame, NetworkTakes, Become

\* The client takes from the network what came before the rest.
LEMMA ReceiveHolds == ASSUME IInv, ClientReceives PROVE Held'
<1>1. /\ outbox # <<>> /\ outbox' = Tail(outbox) /\ received' = Append(received, Head(outbox))
      /\ outbox \in Seq(Int) /\ received \in Seq(Int) /\ Head(outbox) \in Int
      /\ UNCHANGED <<lines, frame, chan, latest, missed, registered, handler>>
  BY NumbersAreIntegers, HeadTailProperties DEF IInv, ClientReceives, piVars, subVars, channelVars,
                                                handlerVars
<1>2. /\ Rising(outbox')
      /\ \A n : In(outbox, n) <=> n = Head(outbox) \/ In(outbox', n)
      /\ \A n : In(outbox', n) => Head(outbox) < n
  BY <1>1, TailHolds DEF IInv, Held, InOrder
<1>3. Rising(received) /\ \A n : In(received, n) => n < Head(outbox)
  BY <1>1, <1>2 DEF IInv, Held, InOrder
<1>4. Rising(received') /\ \A n : In(received', n) <=> In(received, n) \/ n = Head(outbox)
  BY <1>1, <1>3, AppendHolds
<1>5. \A n : (Written(n)' <=> Written(n)) /\ (Coming(n)' <=> Coming(n))
  BY <1>1, <1>2, <1>4 DEF Written, Coming
<1>6. InOrder'
  <2>1. \A m, n : In(received', m) /\ In(outbox', n) => m < n
    BY <1>2, <1>4 DEF IInv, Held, InOrder
  <2> QED BY <1>1, <1>2, <1>4, <1>5, <2>1 DEF IInv, Held, InOrder
<1>7. WrittenWhole' /\ ComingWhole' /\ NothingYet'
  BY <1>1, <1>5 DEF IInv, Held, WrittenWhole, ComingWhole, NothingYet, Event, Going
<1>8. OnlyEvents'
  BY <1>1, <1>5 DEF IInv, Held, OnlyEvents, Event
<1> QED BY <1>6, <1>7, <1>8 DEF Held

\* Pi writes a line: its event, if it has one, comes behind all that is on its
\* way, unless the channel is full or no longer registered.
LEMMA PiWritesHolds == ASSUME IInv, NEW l \in PiLines, PiWrites(l) PROVE Held'
<1>0. PICK N : N = Len(lines) + 1
  OBVIOUS
<1>1. /\ UNCHANGED <<received, outbox, frame, handler>>
      /\ Len(lines) \in Nat /\ Len(lines)' = N /\ chan \in Seq(Int) /\ N \in Int
      /\ \A n \in 1..Len(lines) : lines'[n] = lines[n]
      /\ lines'[N] = l
  BY <1>0, NumbersAreIntegers, AppendProperties DEF IInv, TypeOK, PiType, PiWrites, handlerVars, clientVars
<1>2. /\ \A n \in 1..Len(lines) : Event(n)' <=> Event(n)
      /\ Event(N)' <=> EventsOf(l) # <<>>
  BY <1>1 DEF Event
<1>3. \A n : Written(n)' <=> Written(n)
  BY <1>1 DEF Written
<1>4. \A n : Coming(n) => n \in 1..Len(lines)
  BY DEF IInv, Held, InOrder
<1>5. \A n : n \in 1..N <=> n \in 1..Len(lines) \/ n = N
  BY <1>0, <1>1
<1>6. \A n \in 1..Len(lines) : n < N
  BY <1>0, <1>1
<1>7. WrittenWhole'
  <2>1. missed => missed'
    BY DEF PiWrites, Sub!Offer, channelVars
  <2> SUFFICES ASSUME ~missed, NEW m \in 1..N, NEW n \in 1..N, NEW k \in 1..N,
                      Written(m), Written(n), m < k, k < n, Event(k)'
               PROVE  Written(k)
    BY <1>1, <1>3, <2>1 DEF WrittenWhole
  <2>2. m \in 1..Len(lines) /\ n \in 1..Len(lines)
    BY <1>4 DEF Coming
  <2>3. k \in 1..Len(lines)
    BY <1>1, <1>5, <2>2
  <2> QED BY <1>2, <2>2, <2>3 DEF IInv, Held, WrittenWhole
<1>8. CASE UNCHANGED chan /\ UNCHANGED registered
  <2>1. \A n : Coming(n)' <=> Coming(n)
    BY <1>1, <1>3, <1>8 DEF Coming
  <2>2. InOrder'
    <3>1. latest' =< N
      <4>1. latest' = latest \/ latest' = N
        BY <1>0 DEF PiWrites, Sub!Offer, channelVars
      <4>2. latest =< Len(lines) /\ latest \in Int
        BY StreamAssumption DEF IInv, TypeOK, ChannelType, Held, InOrder
      <4> QED BY <1>0, <1>1, <4>1, <4>2
    <3> QED BY <1>1, <1>3, <1>5, <1>8, <2>1, <3>1 DEF IInv, Held, InOrder
  <2>3. ComingWhole'
    <3> SUFFICES ASSUME Going, ~missed', NEW m \in 1..N, NEW k \in 1..N,
                        Coming(m), m < k, Event(k)',
                        registered \/ \E n \in 1..N : Coming(n) /\ k < n
                 PROVE  Coming(k)
      BY <1>1, <1>8, <2>1 DEF ComingWhole, Going
    <3>1. ~missed
      BY DEF PiWrites, Sub!Offer, channelVars
    <3>2. k \in 1..Len(lines)
      <4>1. CASE k = N
        <5>1. registered /\ EventsOf(l) # <<>>
          <6>1. ~\E n : Coming(n) /\ N < n
            BY <1>1, <1>4, <1>6
          <6> QED BY <1>2, <4>1, <6>1
        <5>2. Sub!Offer(N)
          BY <1>0, <5>1 DEF PiWrites
        <5>3. Len(chan) < SubBuf
          <6>1. Len(chan) \in Nat /\ SubBuf \in Nat
            BY <1>1, StreamAssumption
          <6>2. missed' = (missed \/ (registered /\ Len(chan) >= SubBuf))
            BY <5>2 DEF Sub!Offer
          <6>3. ~(Len(chan) >= SubBuf)
            BY <5>1, <6>2, Zenon
          <6> QED BY <6>1, <6>3
        <5>4. chan' = Append(chan, N)
          BY <5>1, <5>2, <5>3 DEF Sub!Offer
        <5>5. Len(chan') = Len(chan) + 1 /\ Len(chan) \in Nat
          BY <1>1, <5>4
        <5> QED BY <1>8, <5>5
      <4> QED BY <1>5, <4>1
    <3>3. m \in 1..Len(lines) /\ \A n : Coming(n) => n \in 1..Len(lines)
      BY <1>4
    <3> QED BY <1>2, <3>1, <3>2, <3>3 DEF IInv, Held, ComingWhole
  <2>4. NothingYet'
    BY <1>1, <1>8, <2>1 DEF IInv, Held, NothingYet
  <2>5. OnlyEvents'
    BY <1>2, <1>4, <2>1 DEF IInv, Held, OnlyEvents
  <2> QED BY <1>7, <2>2, <2>3, <2>4, <2>5 DEF Held
<1>9. CASE /\ registered /\ UNCHANGED registered /\ chan' = Append(chan, N) /\ latest' = N
           /\ EventsOf(l) # <<>>
  <2>1. /\ Rising(chan')
        /\ \A n : In(chan', n) <=> In(chan, n) \/ n = N
    <3>1. Rising(chan) /\ \A n : In(chan, n) => n < N
      BY <1>4, <1>6 DEF IInv, Held, InOrder, Coming
    <3> QED BY <1>1, <1>9, <3>1, AppendHolds
  <2>2. \A n : Coming(n)' <=> Coming(n) \/ n = N
    BY <1>1, <1>3, <2>1 DEF Coming
  <2>3. InOrder'
    <3>1. \A m, n : (Written(m) \/ (frame # 0 /\ frame = m)) /\ In(chan', n) => m < n
      BY <1>4, <1>6, <2>1 DEF IInv, Held, InOrder, Coming
    <3>2. \A n : Coming(n)' => n \in 1..N
      BY <1>4, <1>5, <2>2, <1>0, <1>1
    <3>3. latest' =< N
      BY <1>1, <1>9
    <3> QED BY <1>1, <1>3, <2>1, <3>1, <3>2, <3>3 DEF IInv, Held, InOrder
  <2>4. ComingWhole'
    <3> SUFFICES ASSUME Going, ~missed', NEW m \in 1..N, NEW k \in 1..N,
                        Coming(m)', m < k, Event(k)'
                 PROVE  Coming(k)'
      BY <1>1 DEF ComingWhole, Going
    <3>1. ~missed
      BY DEF PiWrites, Sub!Offer, channelVars
    <3>2. CASE k = N
      BY <2>2, <3>2
    <3>3. CASE k \in 1..Len(lines)
      <4>1. m # N
        BY <1>1, <1>6, <3>3
      <4>2. m \in 1..Len(lines) /\ Coming(m)
        BY <1>5, <2>2, <4>1
      <4> QED BY <1>2, <1>9, <2>2, <3>1, <3>3, <4>2 DEF IInv, Held, ComingWhole
    <3> QED BY <1>5, <3>2, <3>3
  <2>5. NothingYet'
    BY <1>1, <1>9 DEF IInv, Held, NothingYet
  <2>6. OnlyEvents'
    BY <1>2, <1>4, <1>9, <2>2 DEF IInv, Held, OnlyEvents
  <2> QED BY <1>7, <2>3, <2>4, <2>5, <2>6 DEF Held
<1> QED BY <1>0, <1>8, <1>9 DEF PiWrites, Sub!Offer, channelVars

---------------------------------------------------------------------------
(* The theorems.                                                            *)

\* Every step keeps events in order and without a hole.
LEMMA NextHolds == ASSUME IInv, [Next]_vars PROVE Held'
<1> USE DEF piVars, subVars, channelVars, handlerVars, readerVars, clientVars
<1>1. CASE Subscribe \/ SelectEvent \/ WriteFrame
  BY <1>1, SubscribeHolds, SelectHolds, WriteHolds
<1>2. CASE SelectEnd \/ HandlerUnsubscribes \/ HandlerCancels \/ HandlerCloses \/ WatcherFires
  <2>1. /\ UNCHANGED <<eventVars, missed>>
        /\ registered' => registered
        /\ Going' => Going
        /\ handler' = "subscribe" => handler = "subscribe"
    BY <1>2 DEF SelectEnd, HandlerUnsubscribes, HandlerCancels, HandlerCloses, WatcherFires,
                Become, Unsubscribe, Sub!End, eventVars, Going
  <2> QED BY <2>1, NothingMoves DEF IInv
<1>3. CASE ReaderStep \/ Close \/ Drain
  <2>1. /\ UNCHANGED <<eventVars, missed>>
        /\ registered' => registered
        /\ Going' => Going
        /\ handler' = "subscribe" => handler = "subscribe"
    <3>1. CASE ReaderStep
      <4>1. UNCHANGED <<lines, subVars, handlerVars, outbox, received>>
        BY <3>1 DEF ReaderStep, ReadMessage, ReadFails, WriteMessage, AbortReturns
      <4> QED BY <4>1 DEF eventVars, Going
    <3>2. CASE Close \/ Drain
      <4>1. /\ UNCHANGED <<lines, handlerVars, outbox, received>>
            /\ Unsubscribe \/ UNCHANGED channelVars
        BY <3>2 DEF Close, Drain
      <4> QED BY <4>1 DEF Unsubscribe, Sub!End, eventVars, Going
    <3> QED BY <1>3, <3>1, <3>2
  <2> QED BY <2>1, NothingMoves DEF IInv
<1>4. CASE PiStep
  <2>1. CASE \E l \in PiLines : PiWrites(l)
    BY <2>1, PiWritesHolds
  <2>2. CASE PiTakes \/ PiAnswersAbort \/ PiExits
    <3>1. /\ UNCHANGED <<eventVars, missed>>
          /\ registered' => registered
          /\ Going' => Going
          /\ handler' = "subscribe" => handler = "subscribe"
      BY <2>2 DEF PiTakes, PiAnswersAbort, PiExits, eventVars, Going
    <3> QED BY <3>1, NothingMoves DEF IInv
  <2> QED BY <1>4, <2>1, <2>2 DEF PiStep
<1>5. CASE ClientReceives
  BY <1>5, ReceiveHolds
<1>6. CASE (ClientStep /\ ~ClientReceives) \/ NetworkNotices \/ Finished \/ UNCHANGED vars
  <2>1. /\ UNCHANGED <<eventVars, missed>>
        /\ registered' => registered
        /\ Going' => Going
        /\ handler' = "subscribe" => handler = "subscribe"
    BY <1>6 DEF ClientStep, ClientSends, ClientResponds, ClientLeaves, NetworkNotices, Finished,
                vars, eventVars, Going
  <2> QED BY <2>1, NothingMoves DEF IInv
<1> QED BY <1>1, <1>2, <1>3, <1>4, <1>5, <1>6 DEF Next, HandlerStep

\* The inductive invariant of a stream: events are in order on their way from
\* the channel to the client, and without a hole between two of them as long
\* as none was missed.
THEOREM Inductive == Spec => []IInv
<1>1. Init => IInv
  <2> SUFFICES ASSUME Init PROVE IInv
    OBVIOUS
  <2>1. /\ received = <<>> /\ outbox = <<>> /\ chan = <<>> /\ lines = <<>>
        /\ frame = 0 /\ latest = 0 /\ registered = FALSE
    BY DEF Init, Sub!Init
  <2>2. \A n : ~In(<<>>, n)
    BY DEF In
  <2>3. Rising(<<>>) /\ Len(<<>>) = 0
    BY DEF Rising
  <2>4. \A n : ~Coming(n) /\ ~Written(n)
    BY <2>1, <2>2 DEF Coming, Written
  <2>5. InOrder
    BY <2>1, <2>2, <2>3, <2>4 DEF InOrder
  <2> QED BY <2>1, <2>4, <2>5, TypeInit DEF IInv, Held, OnlyEvents, WrittenWhole, ComingWhole,
                                           NothingYet
<1>2. IInv /\ [Next]_vars => IInv'
  BY TypeNext, NextHolds DEF IInv
<1> QED BY <1>1, <1>2, PTL DEF Spec

\* Every reachable state of a stream is of its type.
THEOREM TypeCorrect == Spec => []TypeOK
<1>1. IInv => TypeOK
  BY DEF IInv
<1> QED BY <1>1, Inductive, PTL

\* For any lines of Pi and any capacities, the client receives events in order
\* and misses none between two unless the channel was full.
THEOREM NoHole == Spec => []GaplessUnlessFull
<1>1. IInv => GaplessUnlessFull
  <2> SUFFICES ASSUME IInv, NEW k \in 1..Len(received) - 1 PROVE
                   /\ received[k] < received[k + 1]
                   /\ missed \/ \A n \in received[k] + 1 .. received[k + 1] - 1 :
                                    EventsOf(lines[n]) = <<>>
    BY DEF GaplessUnlessFull
  <2>1. /\ received \in Seq(Int) /\ Len(received) \in Nat /\ DOMAIN received = 1..Len(received)
        /\ k \in DOMAIN received /\ k + 1 \in DOMAIN received
        /\ received[k] \in Int /\ received[k + 1] \in Int /\ Len(lines) \in Nat
    BY NumbersAreIntegers DEF IInv
  <2>2. \A j, m \in DOMAIN received : j < m => received[j] < received[m]
    BY DEF IInv, Held, InOrder, Rising
  <2>3. received[k] < received[k + 1]
    BY <2>1, <2>2
  <2>4. Written(received[k]) /\ Written(received[k + 1])
    BY <2>1 DEF Written, In
  <2>5. /\ received[k] \in 1..Len(lines) /\ received[k + 1] \in 1..Len(lines)
    BY <2>4 DEF IInv, Held, InOrder, Coming
  <2>6. ASSUME ~missed, NEW n \in received[k] + 1 .. received[k + 1] - 1 PROVE ~Event(n)
    <3>1. n \in Int /\ received[k] < n /\ n < received[k + 1] /\ n \in 1..Len(lines)
      BY <2>1, <2>5
    <3>2. ~In(received, n)
      <4> SUFFICES ASSUME NEW j \in DOMAIN received, received[j] = n PROVE FALSE
        BY DEF In
      <4>1. j < k \/ j = k \/ j = k + 1 \/ k + 1 < j
        BY <2>1
      <4> QED BY <2>1, <2>2, <3>1, <4>1
    <3>3. ~In(outbox, n)
      <4>1. In(received, received[k + 1])
        BY <2>1 DEF In
      <4>2. \A m : In(outbox, m) => received[k + 1] < m
        BY <4>1 DEF IInv, Held, InOrder
      <4> QED BY <2>1, <3>1, <4>2
    <3> QED BY <2>4, <2>5, <2>6, <3>1, <3>2, <3>3 DEF IInv, Held, WrittenWhole, Written
  <2> QED BY <2>3, <2>6 DEF Event
<1> QED BY <1>1, Inductive, PTL

---------------------------------------------------------------------------
(* What the client makes of the events.                                     *)

\* The lines that begin and end a span have an envelope readLoop can decode.
SpansReadable ==
    \A l \in PiLines, x \in DOMAIN Spans :
        l.type \in {Spans[x].pi[1], Spans[x].pi[2]} => l.shape # "header"

\* The types of lines and events that begin and end spans.
LEMMA SpanTypes ==
    /\ DOMAIN Spans = {"run", "compaction"}
    /\ Spans["run"].pi[1] = "agent_start" /\ Spans["run"].pi[2] = "agent_end"
    /\ Spans["run"].client[1] = "agent.run.start" /\ Spans["run"].client[2] = "agent.run.end"
    /\ Spans["compaction"].pi[1] = "compaction_start"
    /\ Spans["compaction"].pi[2] = "compaction_end"
    /\ Spans["compaction"].client[1] = "agent.compaction.start"
    /\ Spans["compaction"].client[2] = "agent.compaction.end"
BY DEF Spans

SpanEvents == {"agent.run.start", "agent.run.end", "agent.compaction.start",
               "agent.compaction.end"}

\* A line of another type gets none of the events of spans.
LEMMA OtherEvents ==
    ASSUME NEW l, EventsOf(l) # <<>>, EventsOf(l)[1] \in SpanEvents
    PROVE  /\ l.type \in DOMAIN EventType /\ EventsOf(l)[1] = EventType[l.type]
           /\ l.type \in {"agent_start", "agent_end", "compaction_start", "compaction_end"}
<1>1. \A u \in DOMAIN UpdateType : UpdateType[u] \notin SpanEvents
  BY DEF UpdateType, SpanEvents
<1>2. "agent.unknown" \notin SpanEvents
  BY DEF SpanEvents
<1>3. \A t \in DOMAIN EventType : EventType[t] \in SpanEvents =>
          t \in {"agent_start", "agent_end", "compaction_start", "compaction_end"}
  BY DEF EventType, SpanEvents
<1>4. EventsOf(l) = MapRPCLine(l)
  BY DEF EventsOf
<1> HIDE DEF SpanEvents
<1>5. l.type \in DOMAIN EventType /\ EventsOf(l)[1] = EventType[l.type]
  BY <1>1, <1>2, <1>4 DEF MapRPCLine
<1> QED BY <1>3, <1>5

\* A line begins or ends a span for Pi just when its event does for the client,
\* whatever fields of a compaction line are odd.
LEMMA SpanMapped ==
    ASSUME SpansReadable, NEW l \in PiLines, NEW x \in DOMAIN Spans, NEW i \in 1..2
    PROVE  l.type = Spans[x].pi[i] <=> EventsOf(l) # <<>> /\ EventsOf(l)[1] = Spans[x].client[i]
<1>1. i = 1 \/ i = 2
  OBVIOUS
<1>2. /\ {"agent_start", "agent_end", "compaction_start", "compaction_end"}
           \subseteq DOMAIN EventType
      /\ EventType["agent_start"] = "agent.run.start" /\ EventType["agent_end"] = "agent.run.end"
      /\ EventType["compaction_start"] = "agent.compaction.start"
      /\ EventType["compaction_end"] = "agent.compaction.end"
  BY DEF EventType
<1>3. ASSUME l.type = Spans[x].pi[i]
      PROVE  EventsOf(l) # <<>> /\ EventsOf(l)[1] = Spans[x].client[i]
  <2>1. EventsOf(l) = MapRPCLine(l)
    BY <1>1, <1>3 DEF EventsOf, SpansReadable
  <2>2. l.type \in {"agent_start", "agent_end", "compaction_start", "compaction_end"}
    BY <1>1, <1>3, SpanTypes
  <2>3. l.type \notin Strict /\ l.type # "response" /\ l.type # "message_update"
    BY <2>2 DEF Strict
  <2>4. MapRPCLine(l) = <<EventType[l.type]>>
    BY <1>2, <2>2, <2>3 DEF MapRPCLine
  <2>5. EventType[l.type] = Spans[x].client[i]
    BY <1>1, <1>2, <1>3, SpanTypes
  <2> QED BY <2>1, <2>4, <2>5
<1>4. ASSUME EventsOf(l) # <<>>, EventsOf(l)[1] = Spans[x].client[i]
      PROVE  l.type = Spans[x].pi[i]
  <2>1. EventsOf(l)[1] \in SpanEvents
    BY <1>1, <1>4, SpanTypes DEF SpanEvents
  <2>2. /\ EventsOf(l)[1] = EventType[l.type]
        /\ l.type \in {"agent_start", "agent_end", "compaction_start", "compaction_end"}
    BY <1>4, <2>1, OtherEvents
  <2> QED BY <1>1, <1>2, <1>4, <2>2, SpanTypes
<1> QED BY <1>3, <1>4

\* A client that is up to date agrees with Pi on what is under way.
THEOREM ViewsAgree == ASSUME SpansReadable PROVE Spec => []ClientViewAgrees
<1>1. IInv => ClientViewAgrees
  <2> SUFFICES ASSUME IInv, UpToDate, NEW x \in DOMAIN Spans
               PROVE  Unfinished(ClientTypes, Spans[x].client)
                        <=> Unfinished(LineTypes, Spans[x].pi)
    BY DEF ClientViewAgrees
  <2> DEFINE L == Len(lines)
             R == Len(received)
  <2>1. /\ L \in Nat /\ R \in Nat /\ DOMAIN lines = 1..L /\ DOMAIN received = 1..R
        /\ received \in Seq(Int) /\ \A n \in 1..L : lines[n] \in PiLines
    BY NumbersAreIntegers DEF IInv, TypeOK, PiType
  <2>2. \A j, k \in 1..R : j < k => received[j] < received[k]
    BY <2>1 DEF IInv, Held, InOrder, Rising
  <2>3. \A k \in 1..R : received[k] \in 1..L /\ Event(received[k])
    BY <2>1 DEF IInv, Held, InOrder, OnlyEvents, Coming, Written, In
  <2>4. \A n \in 1..L : Event(n) => \E k \in 1..R : received[k] = n
    BY <2>1 DEF UpToDate, Event
  <2>5. /\ DOMAIN ClientTypes = 1..R /\ Len(ClientTypes) = R
        /\ \A k \in 1..R : ClientTypes[k] = EventsOf(lines[received[k]])[1]
    BY <2>1 DEF ClientTypes
  <2>6. /\ DOMAIN LineTypes = 1..L /\ Len(LineTypes) = L
        /\ \A n \in 1..L : LineTypes[n] = lines[n].type
    BY <2>1 DEF LineTypes
  <2>7. ASSUME NEW k \in 1..R, NEW i \in 1..2
        PROVE  ClientTypes[k] = Spans[x].client[i] <=> LineTypes[received[k]] = Spans[x].pi[i]
    <3>1. lines[received[k]] \in PiLines /\ EventsOf(lines[received[k]]) # <<>>
      BY <2>1, <2>3 DEF Event
    <3> QED BY <2>3, <2>5, <2>6, <3>1, SpanMapped
  <2>8. ASSUME NEW n \in 1..L, NEW i \in 1..2, LineTypes[n] = Spans[x].pi[i] PROVE Event(n)
    <3>1. lines[n] \in PiLines /\ lines[n].type = Spans[x].pi[i]
      BY <2>1, <2>6, <2>8
    <3> QED BY <3>1, SpanMapped DEF Event
  <2> HIDE DEF L, R
  <2>9. ASSUME Unfinished(ClientTypes, Spans[x].client)
        PROVE  Unfinished(LineTypes, Spans[x].pi)
    <3>1. PICK k \in 1..R : /\ ClientTypes[k] = Spans[x].client[1]
                            /\ \A j \in k..R : ClientTypes[j] # Spans[x].client[2]
      BY <2>5, <2>9 DEF Unfinished
    <3>2. received[k] \in 1..L /\ LineTypes[received[k]] = Spans[x].pi[1]
      BY <2>3, <2>7, <3>1
    <3>3. ASSUME NEW n \in received[k]..L, LineTypes[n] = Spans[x].pi[2] PROVE FALSE
      <4>1. n \in 1..L
        BY <2>1, <3>2
      <4>2. PICK j \in 1..R : received[j] = n
        BY <2>4, <2>8, <3>3, <4>1
      <4>3. ~(j < k)
        <5>1. received[k] \in Int /\ received[k] =< n /\ n \in Int
          BY <2>1, <3>2
        <5> QED BY <2>2, <4>2, <5>1
      <4>4. j \in k..R
        BY <2>1, <4>3
      <4> QED BY <2>7, <3>1, <3>3, <4>2, <4>4
    <3> QED BY <2>6, <3>2, <3>3 DEF Unfinished
  <2>10. ASSUME Unfinished(LineTypes, Spans[x].pi)
         PROVE  Unfinished(ClientTypes, Spans[x].client)
    <3>1. PICK n \in 1..L : /\ LineTypes[n] = Spans[x].pi[1]
                            /\ \A m \in n..L : LineTypes[m] # Spans[x].pi[2]
      BY <2>6, <2>10 DEF Unfinished
    <3>2. PICK k \in 1..R : received[k] = n
      BY <2>4, <2>8, <3>1
    <3>3. ClientTypes[k] = Spans[x].client[1]
      BY <2>7, <3>1, <3>2
    <3>4. ASSUME NEW j \in k..R, ClientTypes[j] = Spans[x].client[2] PROVE FALSE
      <4>1. j \in 1..R /\ (k = j \/ k < j)
        BY <2>1
      <4>2. received[j] \in 1..L /\ LineTypes[received[j]] = Spans[x].pi[2]
        BY <2>3, <2>7, <3>4, <4>1
      <4>3. received[j] \in n..L
        <5>1. received[k] = received[j] \/ received[k] < received[j]
          BY <2>2, <4>1
        <5> QED BY <2>1, <3>2, <4>2, <5>1
      <4> QED BY <3>1, <4>2, <4>3
    <3> QED BY <2>5, <3>3, <3>4 DEF Unfinished
  <2> QED BY <2>9, <2>10
<1> QED BY <1>1, Inductive, PTL
=============================================================================
