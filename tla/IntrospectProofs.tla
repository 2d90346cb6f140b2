-------------------------- MODULE IntrospectProofs --------------------------
(* Theorems about Introspect, for any capacity of the channel and the pipe   *)
(* and any number of events of no interest.                                  *)
EXTENDS Introspect, SequenceTheorems, TLAPS

---------------------------------------------------------------------------
(* The invariant.                                                            *)

\* Pi is started by Run, and told to stop before Run returns.
PiInHand ==
    /\ phase = "start" => pi = "none"
    /\ phase \in {"closing", "served"} => pi # "running"

\* Pi is asked nothing before Run sends the prompt.
NothingAskedYet == phase \in {"start", "subscribe", "send"} => job = "none"

\* What is announced has happened: an announcement in the pipe or the channel, or
\* one the harvester has seen, is of the end of the command or run; with the
\* extension it is a command, which left its snapshot at the end of the transcript.
Announcing(s) == \E k \in 1..Len(s) : Announces(s[k])
OnItsWay == Announcing(chan) \/ Announcing(out)
AnnouncedIsDone ==
    /\ signalled \/ OnItsWay => job = "finished"
    /\ phase = "read" => signalled
    /\ extension => job # "run"
    /\ extension /\ job = "finished" => transcript # <<>> /\ Last(transcript) = "this"

\* What is done is announced, unless the channel did not take it or cmd.Wait
\* closed the pipe on it.
DoneIsAnnounced == job = "finished" /\ ~dropped /\ ~lost => signalled \/ OnItsWay

IInv == TypeOK /\ PiInHand /\ NothingAskedYet /\ AnnouncedIsDone /\ DoneIsAnnounced /\ SnapshotOfThisBoot

\* main has called Run and nothing has happened yet.
LEMMA InitHolds == ASSUME Init PROVE IInv
<1>1. transcript \in Seq(Snapshots)
  <2>1. "earlier" \in Snapshots
    BY DEF Snapshots
  <2>2. <<>> \in Seq(Snapshots) /\ <<"earlier">> \in Seq(Snapshots)
    BY <2>1
  <2> QED BY <2>2 DEF Init
<1>2. /\ chan = <<>> /\ Len(chan) = 0 /\ chan \in Seq(Events)
      /\ out = <<>> /\ Len(out) = 0 /\ out \in Seq(Events)
  BY DEF Init
<1>3. TypeOK
  <2>1. Len(chan) =< Cap /\ Len(out) =< OutCap /\ others \in 0..MaxOther
    BY <1>2, IntrospectAssumption DEF Init
  <2> QED BY <1>1, <1>2, <2>1 DEF Init, TypeOK
<1>4. ~OnItsWay
  BY <1>2 DEF OnItsWay, Announcing
<1> QED BY <1>3, <1>4 DEF Init, IInv, PiInHand, NothingAskedYet, AnnouncedIsDone, DoneIsAnnounced, SnapshotOfThisBoot

---------------------------------------------------------------------------
(* The way of an event: the pipe, readLoop, the channel, the harvester.      *)

\* An event added at the end announces what it is.
LEMMA Appended ==
    ASSUME NEW s \in Seq(Events), NEW e \in Events
    PROVE  /\ Append(s, e) \in Seq(Events) /\ Len(Append(s, e)) = Len(s) + 1
           /\ Announcing(Append(s, e)) <=> Announcing(s) \/ Announces(e)
<1> DEFINE t == Append(s, e)
<1>1. /\ t \in Seq(Events) /\ Len(t) = Len(s) + 1 /\ Len(s) \in Nat
      /\ \A k \in 1..Len(s) : t[k] = s[k]
      /\ t[Len(s) + 1] = e
  BY AppendProperties
<1>2. \A k : k \in 1..Len(t) <=> k \in 1..Len(s) \/ k = Len(s) + 1
  BY <1>1
<1> HIDE DEF t
<1>3. Announcing(t) <=> Announcing(s) \/ Announces(e)
  BY <1>1, <1>2 DEF Announcing, Announces
<1> QED BY <1>1, <1>3 DEF t

\* An event taken from the front leaves what the others announce.
LEMMA Taken ==
    ASSUME NEW s \in Seq(Events), s # <<>>
    PROVE  /\ Tail(s) \in Seq(Events) /\ Len(Tail(s)) = Len(s) - 1
           /\ Head(s) \in Events /\ Len(s) \in Nat
           /\ Announcing(s) <=> Announces(Head(s)) \/ Announcing(Tail(s))
<1> DEFINE t == Tail(s)
<1>1. /\ t \in Seq(Events) /\ Len(t) = Len(s) - 1 /\ Len(s) \in Nat
      /\ \A k \in 1..Len(t) : t[k] = s[k + 1] /\ k + 1 \in 1..Len(s)
      /\ Head(s) = s[1] /\ Head(s) \in Events /\ 1 \in 1..Len(s)
  BY HeadTailProperties
<1>2. \A k \in 1..Len(s) : k # 1 => k - 1 \in 1..Len(t) /\ (k - 1) + 1 = k
  BY <1>1
<1> HIDE DEF t
<1>3. Announcing(t) => Announcing(s)
  BY <1>1 DEF Announcing, Announces
<1>4. Announces(Head(s)) => Announcing(s)
  BY <1>1 DEF Announcing
<1>5. ASSUME NEW k \in 1..Len(s), Announces(s[k]), k # 1 PROVE Announcing(t)
  <2>1. k - 1 \in 1..Len(t) /\ t[k - 1] = s[k]
    BY <1>1, <1>2, <1>5
  <2> QED BY <1>5, <2>1 DEF Announcing, Announces
<1>6. Announcing(s) => Announces(Head(s)) \/ Announcing(t)
  BY <1>1, <1>5 DEF Announcing
<1> QED BY <1>1, <1>3, <1>4, <1>6 DEF t

\* readLoop passes an event on, or the channel does not take it.
LEMMA ReadLineKeeps == ASSUME IInv, ReadLine PROVE IInv'
<1> DEFINE e == Head(out)
<1>1. /\ UNCHANGED <<phase, result, signalled, harvester, expired, open, lost, pi, extension, job,
                     transcript, others>>
      /\ out # <<>> /\ out' = Tail(out)
  BY DEF ReadLine, runVars, piVars
<1>2. /\ chan \in Seq(Events) /\ Len(chan) \in Nat /\ Len(chan) =< Cap /\ Cap \in Nat
      /\ out \in Seq(Events) /\ Len(out) =< OutCap /\ OutCap \in Nat
      /\ dropped \in BOOLEAN
  BY IntrospectAssumption DEF IInv, TypeOK
<1>3. /\ out' \in Seq(Events) /\ Len(out') =< OutCap /\ e \in Events
      /\ Announcing(out) <=> Announces(e) \/ Announcing(out')
  BY <1>1, <1>2, Taken
<1>4. /\ chan' \in Seq(Events) /\ Len(chan') =< Cap /\ dropped' \in BOOLEAN
      /\ Announcing(chan') => Announcing(chan) \/ Announces(e)
      /\ Announcing(chan) => Announcing(chan')
      /\ dropped => dropped'
      /\ Announces(e) /\ ~dropped' => Announcing(chan')
  <2>1. CASE open /\ Len(chan) < Cap
    <3>1. chan' = Append(chan, e) /\ dropped' = dropped
      BY <2>1 DEF ReadLine
    <3> HIDE DEF e
    <3>2. /\ chan' \in Seq(Events) /\ Len(chan') = Len(chan) + 1
          /\ Announcing(chan') <=> Announcing(chan) \/ Announces(e)
      BY <1>2, <1>3, <3>1, Appended
    <3> QED BY <1>2, <2>1, <3>1, <3>2
  <2>2. CASE ~(open /\ Len(chan) < Cap)
    <3>1. chan' = chan /\ dropped' = (dropped \/ e # "other")
      BY <2>2 DEF ReadLine
    <3>2. Announces(e) => e # "other"
      BY DEF Announces
    <3> HIDE DEF e
    <3> QED BY <1>2, <3>1, <3>2
  <2> QED BY <2>1, <2>2
<1> HIDE DEF e
<1>5. TypeOK'
  BY <1>1, <1>3, <1>4 DEF IInv, TypeOK
<1>6. OnItsWay' => OnItsWay
  BY <1>3, <1>4 DEF OnItsWay
<1>7. OnItsWay /\ ~dropped' => OnItsWay'
  BY <1>3, <1>4 DEF OnItsWay
<1> QED BY <1>1, <1>4, <1>5, <1>6, <1>7
       DEF IInv, PiInHand, NothingAskedYet, AnnouncedIsDone, DoneIsAnnounced, SnapshotOfThisBoot

\* cmd.Wait leaves readLoop a part of what was in the pipe.
LEMMA ReapKeeps == ASSUME IInv, Reap PROVE IInv'
<1>1. /\ UNCHANGED <<phase, result, signalled, harvester, expired, chan, open, dropped, extension,
                     job, transcript, others>>
      /\ pi' = "reaped" /\ pi = "exited"
  BY DEF Reap, runVars
<1>2. PICK n \in 0..Len(out) :
          /\ out' = SubSeq(out, 1, n)
          /\ lost' = (lost \/ \E j \in n + 1..Len(out) : out[j] # "other")
  BY DEF Reap
<1>3. out \in Seq(Events) /\ Len(out) \in Nat /\ Len(out) =< OutCap /\ OutCap \in Nat
      /\ lost \in BOOLEAN
  BY IntrospectAssumption DEF IInv, TypeOK
<1>4. /\ out' \in Seq(Events) /\ Len(out') = n /\ n \in Nat
      /\ \A k \in 1..n : out'[k] = out[k] /\ k \in 1..Len(out)
  BY <1>2, <1>3
<1>5. Announcing(out') => Announcing(out)
  BY <1>4 DEF Announcing, Announces
<1>6. Announcing(out) /\ ~lost' => Announcing(out')
  <2> SUFFICES ASSUME NEW k \in 1..Len(out), Announces(out[k]), ~lost' PROVE Announcing(out')
    BY DEF Announcing
  <2>1. out[k] # "other"
    BY DEF Announces
  <2>2. k \notin n + 1..Len(out)
    BY <1>2, <2>1
  <2>3. k \in 1..n
    BY <1>3, <1>4, <2>2
  <2> QED BY <1>4, <2>3 DEF Announcing, Announces
<1>7. lost => lost'
  BY <1>2
<1>8. TypeOK'
  <2>1. Len(out') =< OutCap /\ lost' \in BOOLEAN
    BY <1>2, <1>3, <1>4
  <2> QED BY <1>1, <1>4, <2>1 DEF IInv, TypeOK
<1>9. Announcing(chan') <=> Announcing(chan)
  BY <1>1 DEF Announcing, Announces
<1> QED BY <1>1, <1>5, <1>6, <1>7, <1>8, <1>9
       DEF IInv, OnItsWay, PiInHand, NothingAskedYet, AnnouncedIsDone, DoneIsAnnounced,
           SnapshotOfThisBoot

\* The harvester takes an event, or finds the channel ended and goes.
LEMMA HarvestKeeps == ASSUME IInv, Harvest PROVE IInv'
<1>1. chan \in Seq(Events) /\ Len(chan) =< Cap /\ Cap \in Nat
  BY IntrospectAssumption DEF IInv, TypeOK
<1>2. UNCHANGED <<phase, result, expired, out, open, dropped, lost, pi, extension, job, transcript,
                  others>>
  BY DEF Harvest, piVars
<1>3. Announcing(out') <=> Announcing(out)
  BY <1>2 DEF Announcing, Announces
<1>4. CASE chan # <<>> /\ chan' = Tail(chan)
           /\ IF Announces(Head(chan)) THEN signalled' = TRUE /\ harvester' = "gone"
                                       ELSE UNCHANGED <<signalled, harvester>>
  <2>1. /\ chan' \in Seq(Events) /\ Len(chan') = Len(chan) - 1 /\ Len(chan) \in Nat
        /\ Announcing(chan) <=> Announces(Head(chan)) \/ Announcing(chan')
    BY <1>1, <1>4, Taken
  <2>2. TypeOK'
    <3>1. signalled' \in BOOLEAN /\ harvester' \in {"none", "reading", "gone"}
      BY <1>4 DEF IInv, TypeOK
    <3>2. Len(chan') =< Cap
      BY <1>1, <2>1
    <3> QED BY <1>2, <2>1, <3>1, <3>2 DEF IInv, TypeOK
  <2>3. signalled' <=> signalled \/ Announces(Head(chan))
    BY <1>4 DEF IInv, TypeOK
  <2> QED BY <1>2, <1>3, <2>1, <2>2, <2>3
         DEF IInv, OnItsWay, PiInHand, NothingAskedYet, AnnouncedIsDone, DoneIsAnnounced,
             SnapshotOfThisBoot
<1>5. CASE harvester' = "gone" /\ UNCHANGED <<chan, signalled>>
  <2>1. Announcing(chan') <=> Announcing(chan)
    BY <1>5 DEF Announcing, Announces
  <2> QED BY <1>2, <1>3, <1>5, <2>1
         DEF IInv, TypeOK, OnItsWay, PiInHand, NothingAskedYet, AnnouncedIsDone, DoneIsAnnounced,
             SnapshotOfThisBoot
<1> QED BY <1>4, <1>5 DEF Harvest

---------------------------------------------------------------------------
(* Pi.                                                                       *)

\* A line that Pi prints is on its way.
LEMMA Printed ==
    ASSUME IInv, NEW e \in Events, PrintsLine(e)
    PROVE  /\ UNCHANGED <<chan, open, dropped, lost>>
           /\ out' \in Seq(Events) /\ Len(out') =< OutCap
           /\ OnItsWay' <=> OnItsWay \/ Announces(e)
<1>1. /\ UNCHANGED <<chan, open, dropped, lost>>
      /\ Len(out) < OutCap /\ out' = Append(out, e)
  BY DEF PrintsLine
<1>2. out \in Seq(Events) /\ Len(out) \in Nat /\ OutCap \in Nat
  BY IntrospectAssumption DEF IInv, TypeOK
<1>3. /\ out' \in Seq(Events) /\ Len(out') = Len(out) + 1
      /\ Announcing(out') <=> Announcing(out) \/ Announces(e)
  BY <1>1, <1>2, Appended
<1>4. Announcing(chan') <=> Announcing(chan)
  BY <1>1 DEF Announcing, Announces
<1> QED BY <1>1, <1>2, <1>3, <1>4 DEF OnItsWay

\* The end of the command or run is announced once, and of a command the
\* snapshot is in the transcript by then.
LEMMA AnnounceKeeps == ASSUME IInv, PiAnnounces PROVE IInv'
<1> DEFINE e == IF job = "command" THEN "snapshot" ELSE "runEnd"
<1>1. /\ pi = "running" /\ job \in {"command", "run"} /\ job' = "finished" /\ PrintsLine(e)
      /\ transcript' = IF job = "command" THEN Append(transcript, "this") ELSE transcript
      /\ UNCHANGED <<phase, result, signalled, harvester, expired, pi, extension, others>>
  BY DEF PiAnnounces, runVars
<1>2. e \in Events /\ Announces(e)
  BY DEF Events, Announces
<1> HIDE DEF e
<1>3. /\ UNCHANGED <<chan, open, dropped, lost>>
      /\ out' \in Seq(Events) /\ Len(out') =< OutCap /\ OnItsWay'
  BY <1>1, <1>2, Printed
<1>4. transcript \in Seq(Snapshots) /\ "this" \in Snapshots
  BY DEF IInv, TypeOK, Snapshots
<1>5. /\ Append(transcript, "this") \in Seq(Snapshots)
      /\ Append(transcript, "this") # <<>>
      /\ Last(Append(transcript, "this")) = "this"
  <2>1. /\ Append(transcript, "this") \in Seq(Snapshots)
        /\ Len(Append(transcript, "this")) = Len(transcript) + 1
        /\ Append(transcript, "this")[Len(transcript) + 1] = "this"
        /\ Len(transcript) \in Nat
    BY <1>4, AppendProperties
  <2>2. Append(transcript, "this") # <<>>
    BY <2>1
  <2> QED BY <2>1, <2>2 DEF Last
<1>6. extension => job = "command"
  BY <1>1 DEF IInv, AnnouncedIsDone
<1>7. TypeOK'
  BY <1>1, <1>3, <1>4, <1>5 DEF IInv, TypeOK
<1> QED BY <1>1, <1>3, <1>5, <1>6, <1>7
       DEF IInv, PiInHand, NothingAskedYet, AnnouncedIsDone, DoneIsAnnounced, SnapshotOfThisBoot

\* An event of no interest announces nothing, at most it fills pipe and channel.
LEMMA OtherKeeps == ASSUME IInv, PiEmitsOther PROVE IInv'
<1>1. /\ PrintsLine("other") /\ others' = others + 1 /\ others < MaxOther
      /\ UNCHANGED <<phase, result, signalled, harvester, expired, pi, extension, job, transcript>>
  BY DEF PiEmitsOther, runVars
<1>2. "other" \in Events /\ ~Announces("other")
  BY DEF Events, Announces
<1>3. /\ UNCHANGED <<chan, open, dropped, lost>>
      /\ out' \in Seq(Events) /\ Len(out') =< OutCap
      /\ OnItsWay' <=> OnItsWay
  BY <1>1, <1>2, Printed
<1>4. TypeOK'
  BY <1>1, <1>3, IntrospectAssumption DEF IInv, TypeOK
<1> QED BY <1>1, <1>3, <1>4
       DEF IInv, PiInHand, NothingAskedYet, AnnouncedIsDone, DoneIsAnnounced, SnapshotOfThisBoot, TypeOK

---------------------------------------------------------------------------
(* Run: none of its steps touches the channel or the transcript.             *)

\* A pipe and a channel left alone announce what they announced.
LEMMA SameChannel == ASSUME UNCHANGED <<chan, out>> PROVE OnItsWay' <=> OnItsWay
BY DEF OnItsWay, Announcing, Announces

\* Run reads the transcript only once the end of the command was announced.
LEMMA ReadKeeps == ASSUME IInv, Read PROVE IInv'
<1>1. UNCHANGED <<expired, out, chan, open, dropped, lost, pi, extension, job, transcript, others>>
  BY DEF Read, eventVars, piVars
<1>2. phase = "read" /\ signalled /\ (extension => job = "finished")
  BY DEF Read, IInv, AnnouncedIsDone
<1>3. CASE /\ transcript # <<>> /\ result' = ParseIntrospectMessage(transcript)
           /\ phase' = "unsubscribe" /\ UNCHANGED <<signalled, harvester>>
  <2>1. result' = Last(transcript)
    BY <1>3 DEF ParseIntrospectMessage
  <2>2. Last(transcript) \in Snapshots
    BY <1>3 DEF IInv, TypeOK, Last
  <2>3. extension => result' # "earlier"
    BY <1>2, <2>1 DEF IInv, AnnouncedIsDone
  <2> QED BY <1>1, <1>3, <2>1, <2>2, <2>3, SameChannel
         DEF IInv, TypeOK, PiInHand, NothingAskedYet, AnnouncedIsDone, DoneIsAnnounced, SnapshotOfThisBoot
<1>4. CASE FailRun
  BY <1>1, <1>4, SameChannel
     DEF FailRun, Bail, IInv, TypeOK, PiInHand, NothingAskedYet, AnnouncedIsDone, DoneIsAnnounced, SnapshotOfThisBoot
<1> QED BY <1>3, <1>4 DEF Read

\* Every step of Run and of its deferred calls keeps the invariant.
LEMMA RunKeeps == ASSUME IInv, RunStep PROVE IInv'
<1> USE DEF IInv, TypeOK, PiInHand, NothingAskedYet, AnnouncedIsDone, DoneIsAnnounced, SnapshotOfThisBoot,
            Goto, FailRun, Bail, Gone, eventVars, piVars
<1>0. TypeOK
  OBVIOUS
<1>1. CASE Start
  <2>1. /\ phase = "start" /\ pi = "none"
        /\ \/ phase' = "subscribe" /\ pi' = "running" /\ UNCHANGED <<expired, result>>
           \/ phase' = "served" /\ pi' = "none" /\ result' = "error" /\ expired' = TRUE
        /\ UNCHANGED <<signalled, harvester, out, chan, open, dropped, lost, extension, job, transcript, others>>
    BY <1>1 DEF Start
  <2>2. TypeOK'
    <3>1. /\ phase' \in {"subscribe", "served"} /\ pi' \in {"none", "running"}
          /\ result' \in Snapshots \cup {"none", "error"} /\ expired' \in BOOLEAN
          /\ chan' \in Seq(Events) /\ Len(chan') =< Cap /\ out' \in Seq(Events)
          /\ Len(out') =< OutCap /\ transcript' \in Seq(Snapshots)
      BY ONLY <1>0, <2>1 DEF TypeOK
    <3> QED BY ONLY <1>0, <2>1, <3>1 DEF TypeOK
  <2>3. OnItsWay' <=> OnItsWay
    BY <2>1, SameChannel
  <2> QED BY <2>1, <2>2, <2>3
<1>2. CASE Subscribe
  BY <1>2, SameChannel DEF Subscribe
<1>3. CASE SendPrompt
  <2>1. /\ phase = "send" /\ phase' = "sent"
        /\ job' = IF pi = "running" THEN "asked" ELSE job
        /\ UNCHANGED <<result, signalled, harvester, expired, out, chan, open, dropped, lost, pi, extension,
                       transcript, others>>
    BY <1>3 DEF SendPrompt
  <2>2. TypeOK'
    <3>1. /\ phase' = "sent"
          /\ job' \in {"none", "asked", "command", "run", "refused", "finished"}
          /\ chan' \in Seq(Events) /\ Len(chan') =< Cap /\ out' \in Seq(Events)
          /\ Len(out') =< OutCap /\ transcript' \in Seq(Snapshots)
      BY ONLY <1>0, <2>1 DEF TypeOK
    <3> QED BY ONLY <1>0, <2>1, <3>1 DEF TypeOK
  <2>3. OnItsWay' <=> OnItsWay
    BY <2>1, SameChannel
  <2> QED BY <2>1, <2>2, <2>3
<1>4. CASE PromptReturns
  BY <1>4, SameChannel DEF PromptReturns
<1>5. CASE Wait
  BY <1>5, SameChannel DEF Wait
<1>6. CASE Read
  BY <1>6, ReadKeeps
<1>7. CASE Unsubscribe
  <2>1. /\ phase = "unsubscribe" /\ phase' = "close" /\ open' = FALSE
        /\ UNCHANGED <<result, signalled, harvester, expired, out, chan, dropped, lost, pi, extension, job,
                       transcript, others>>
    BY <1>7 DEF Unsubscribe
  <2>2. TypeOK'
    <3>1. /\ open' \in BOOLEAN
          /\ phase' \in {"start", "subscribe", "send", "sent", "wait", "read", "unsubscribe",
                        "close", "closing", "served"}
      BY ONLY <2>1
    <3>2. /\ chan' \in Seq(Events) /\ Len(chan') =< Cap /\ transcript' \in Seq(Snapshots)
          /\ out' \in Seq(Events) /\ Len(out') =< OutCap
      BY ONLY <1>0, <2>1 DEF TypeOK
    <3> QED BY ONLY <1>0, <2>1, <3>1, <3>2 DEF TypeOK
  <2>3. OnItsWay' <=> OnItsWay
    BY <2>1, SameChannel
  <2> QED BY <2>1, <2>2, <2>3
<1>8. CASE Close
  BY <1>8, SameChannel DEF Close
<1>9. CASE CloseReturns
  BY <1>9, SameChannel DEF CloseReturns
<1> QED BY <1>1, <1>2, <1>3, <1>4, <1>5, <1>6, <1>7, <1>8, <1>9 DEF RunStep

\* The watcher, and waitLoop after the exit of Pi, close the channel.
LEMMA ClosedKeeps ==
    ASSUME IInv, open' = FALSE, pi' = pi \/ (pi = "reaped" /\ pi' = "done"),
           UNCHANGED <<runVars, expired, out, chan, dropped, lost, extension, job, transcript, others>>
    PROVE  IInv'
<1>1. UNCHANGED <<phase, result, signalled, harvester>>
  BY DEF runVars
<1>2. TypeOK'
  <2>1. TypeOK
    BY DEF IInv
  <2>2. open' \in BOOLEAN /\ pi' \in {"none", "running", "closing", "exited", "reaped", "done"}
    BY <2>1 DEF TypeOK
  <2>3. /\ chan' \in Seq(Events) /\ Len(chan') =< Cap /\ out' \in Seq(Events)
        /\ Len(out') =< OutCap /\ transcript' \in Seq(Snapshots)
    BY <2>1 DEF TypeOK
  <2> QED BY ONLY <1>1, <2>1, <2>2, <2>3,
             UNCHANGED <<expired, dropped, lost, extension, job, others>> DEF TypeOK
<1> QED BY <1>1, <1>2, SameChannel
       DEF IInv, PiInHand, NothingAskedYet, AnnouncedIsDone, DoneIsAnnounced, SnapshotOfThisBoot

---------------------------------------------------------------------------
(* The theorems.                                                             *)

\* The inductive invariant of introspection at boot.
THEOREM Inductive == Spec => []IInv
<1>1. Init => IInv
  BY InitHolds
<1>2. IInv /\ [Next]_vars => IInv'
  <2> SUFFICES ASSUME IInv, [Next]_vars PROVE IInv'
    OBVIOUS
  <2> USE DEF TypeOK, PiInHand, NothingAskedYet, AnnouncedIsDone, DoneIsAnnounced, SnapshotOfThisBoot,
              runVars, eventVars, piVars
  <2>1. CASE RunStep
    BY <2>1, RunKeeps
  <2>2. CASE Expire
    BY <2>2, SameChannel DEF Expire, IInv
  <2>3. CASE Harvest
    BY <2>3, HarvestKeeps
  <2>4. CASE WatcherUnsubscribes
    BY <2>4, ClosedKeeps DEF WatcherUnsubscribes
  <2>5. CASE PiTakesPrompt
    BY <2>5, SameChannel DEF PiTakesPrompt, IInv
  <2>6. CASE PiAnnounces
    BY <2>6, AnnounceKeeps
  <2>7. CASE PiEmitsOther
    BY <2>7, OtherKeeps
  <2>8. CASE PiExits
    BY <2>8, SameChannel DEF PiExits, IInv
  <2>9. CASE ReadLine
    BY <2>9, ReadLineKeeps
  <2>10. CASE Reap
    BY <2>10, ReapKeeps
  <2>11. CASE Drain
    BY <2>11, ClosedKeeps DEF Drain
  <2>12. CASE UNCHANGED vars
    BY <2>12, SameChannel DEF vars, IInv
  <2> QED BY <2>1, <2>2, <2>3, <2>4, <2>5, <2>6, <2>7, <2>8, <2>9, <2>10, <2>11, <2>12 DEF Next
<1> QED BY <1>1, <1>2, PTL DEF Spec

\* Types, and that the channel keeps to its capacity.
THEOREM TypeCorrect == Spec => []TypeOK
<1>1. IInv => TypeOK
  BY DEF IInv
<1> QED BY <1>1, Inductive, PTL

\* Whenever Run has returned, early or not, its Pi has exited or been told to.
THEOREM PiClosed == Spec => []NoPiLeftBehind
<1>1. IInv => NoPiLeftBehind
  BY DEF IInv, PiInHand, NoPiLeftBehind
<1> QED BY <1>1, Inductive, PTL

\* With the extension the snapshot that main serves is of this boot.
THEOREM SnapshotFresh == Spec => []SnapshotOfThisBoot
<1>1. IInv => SnapshotOfThisBoot
  BY DEF IInv
<1> QED BY <1>1, Inductive, PTL

\* The select of Run does not wait for an announcement that is not to come, unless
\* the channel was full or closed or the exit of Pi cut it off in the pipe.
THEOREM WaitJustified == Spec => []NoVainWait
<1>1. IInv => NoVainWait
  BY DEF IInv, DoneIsAnnounced, OnItsWay, Announcing, Announces, NoVainWait
<1> QED BY <1>1, Inductive, PTL
=============================================================================
