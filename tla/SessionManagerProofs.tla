------------------------ MODULE SessionManagerProofs ------------------------
(* Proofs about SessionManager, for any number of clients, session ids, Pi   *)
(* processes and ends of the server, whether or not the store may fail.      *)
EXTENDS SessionManager, WellFoundedInduction, TLAPS

\* Every process that is registered or in a client's hands has been started, as
\* has the one each stored session was created with.
StartedOnly ==
    /\ \A i \in Ids : handles[i] # None => handles[i] =< started
    /\ \A i \in Ids : rows[i] # None => rows[i] =< started
    /\ \A c \in Clients : held[c] # None => held[c] =< started

\* While the server is down nothing is registered and no request runs.
DownIsEmpty ==
    ~up => (\A i \in Ids : handles[i] = None) /\ (\A c \in Clients : pc[c] = "idle")

\* A request past its first step holds what that step found or started.
HoldsProcess ==
    \A c \in Clients : pc[c] \in {"insert", "undo", "resume", "getRow", "use", "deleteClose"}
        => held[c] # None

\* Create keeps m.mu from the id to the insert or the Close that undoes it, and
\* until the insert the id is nobody else's.
Creating ==
    /\ \A c \in Clients : pc[c] \in {"insert", "undo", "undone"} => mu = c
    /\ \A c \in Clients : pc[c] = "insert" =>
          /\ target[c] =< counter
          /\ handles[target[c]] = None /\ rows[target[c]] = None
          /\ sid[held[c]] = target[c] /\ born[held[c]] = held[c]

\* Between its read and m.mu a Resume may see its row deleted, not replaced: the
\* id is not given out again, to a Create in progress either.
Resuming ==
    \A c \in Clients : pc[c] = "resume" =>
        /\ target[c] =< counter
        /\ rows[target[c]] \in {None, held[c]}
        /\ \A d \in Clients : pc[d] = "insert" => target[d] # target[c]

IInv ==
    /\ TypeOK
    /\ StartedOnly /\ DownIsEmpty /\ HoldsProcess /\ Creating /\ Resuming
    /\ CounterAhead /\ NoLostProcess /\ HandleServesItsRow

---------------------------------------------------------------------------
(* The seed of the counter.                                                  *)

\* Every set of numbers but the empty one has a least member.
LEMMA LeastNat ==
    ASSUME NEW T \in SUBSET Nat, T # {} PROVE \E x \in T : \A y \in T : x =< y
<1> DEFINE R == OpToRel(<, Nat)
<1>1. IsWellFoundedOn(R, Nat)
  BY NatLessThanWellFounded
<1>2. \A x, y \in Nat : y < x => <<y, x>> \in R
  BY DEF OpToRel
<1> HIDE DEF R
<1>3. PICK x \in T : \A y \in T : ~(<<y, x>> \in R)
  BY <1>1, WFMin, Zenon
<1>4. \A y \in T : ~(y < x)
  BY <1>2, <1>3
<1>5. \A y \in T : x =< y
  BY <1>4
<1> QED BY <1>5

\* The id that seeds the counter (Manager.Init) is behind no stored session.
LEMMA SeedBehindNone ==
    ASSUME TypeOK
    PROVE MaxSessionID \in 0..MaxId /\ \A i \in Ids : rows[i] # None => i =< MaxSessionID
<1> DEFINE Above == {n \in 0..MaxId : \A i \in Ids : rows[i] # None => i =< n}
           Last(n) == /\ n = 0 \/ rows[n] # None
                      /\ \A i \in Ids : rows[i] # None => i =< n
<1>1. MaxId \in Above
  BY ManagerAssumption DEF Ids
<1>2. PICK m \in Above : \A n \in Above : m =< n
  <2>1. Above \in SUBSET Nat /\ Above # {}
    BY <1>1
  <2> HIDE DEF Above
  <2> QED BY <2>1, LeastNat
<1>3. Last(m)
  <2>1. CASE m = 0
    BY <1>2, <2>1
  <2>2. CASE m # 0
    <3>1. m - 1 \in 0..MaxId /\ m - 1 \notin Above
      BY <1>2, <2>2, ManagerAssumption
    <3>2. PICK i \in Ids : rows[i] # None /\ ~(i =< m - 1)
      BY <3>1
    <3>3. i = m
      BY <1>2, <3>2, ManagerAssumption DEF Ids
    <3> QED BY <1>2, <3>2, <3>3
  <2> QED BY <2>1, <2>2
<1>4. m \in 0..MaxId
  BY <1>2
<1>5. MaxSessionID \in 0..MaxId /\ Last(MaxSessionID)
  BY <1>3, <1>4 DEF MaxSessionID
<1> QED BY <1>5

---------------------------------------------------------------------------
(* Type correctness, by the parts of the state: server and store, processes, *)
(* clients.                                                                  *)

Labels == {"idle", "insert", "undo", "undone", "getRow", "use", "answer", "resume",
           "deleteRow", "deleteClose"}

ServerType ==
    /\ up \in BOOLEAN /\ defaultDir \in Dirs
    /\ counter \in 0..MaxId /\ mu \in Clients \cup {None}
    /\ handles \in [Ids -> Procs \cup {None}]
    /\ rows \in [Ids -> Procs \cup {None}]
    /\ transcripts \in [Ids -> [Dirs -> SUBSET Procs]]
    /\ crashes \in 0..MaxCrashes

ProcType ==
    /\ started \in 0..MaxProc
    /\ state \in [Procs -> {"unused", "running", "stopping", "exited"}]
    /\ sid \in [Procs -> Ids] /\ born \in [Procs -> Procs] /\ dir \in [Procs -> Dirs]
    /\ loaded \in [Procs -> SUBSET Procs]
    /\ mine \subseteq Procs /\ prompted \subseteq Procs

ClientType ==
    /\ pc \in [Clients -> Labels]
    /\ target \in [Clients -> Ids] /\ held \in [Clients -> Procs \cup {None}]
    /\ wasDead \in [Clients -> BOOLEAN] /\ reply \in [Clients -> Replies]

\* The parts make up the type invariant.
LEMMA TypeParts == TypeOK <=> ServerType /\ ProcType /\ ClientType
BY DEF TypeOK, ServerType, ProcType, ClientType, Labels

\* An empty store and a Manager just made (NewManager).
LEMMA TypeInit == Init => TypeOK
<1>1. 1 \in Ids /\ 1 \in Procs /\ NoDir \in Dirs /\ "none" \in Replies /\ MaxCrashes \in Nat
  BY ManagerAssumption DEF Ids, Procs, Dirs, Replies
<1>2. 0 \in 0..MaxId /\ 0 \in 0..MaxProc /\ 0 \in 0..MaxCrashes
  BY ManagerAssumption
<1>3. ASSUME Init PROVE transcripts \in [Ids -> [Dirs -> SUBSET Procs]]
  BY <1>3 DEF Init
<1> QED BY <1>1, <1>2, <1>3 DEF Init, TypeOK

\* Starting a process (RPCProcessManager.Start) keeps the types, and the process
\* is new.
LEMMA TypeStart ==
    ASSUME ServerType, ProcType, NEW s \in Ids, NEW birth \in Procs, NEW d \in Dirs,
           Start(s, birth, d)
    PROVE ProcType' /\ started' = started + 1 /\ started + 1 \in Procs
<1>1. ResolveWorkingDir(d) \in Dirs
  BY DEF ServerType, ResolveWorkingDir
<1>2. started + 1 \in Procs
  <2>1. started \in 0..MaxProc /\ started < MaxProc /\ MaxProc \in Nat
    BY ManagerAssumption DEF ProcType, Start
  <2> QED BY <2>1 DEF Procs
<1>3. transcripts[s][ResolveWorkingDir(d)] \in SUBSET Procs
  BY <1>1 DEF ServerType
<1>4. started' \in 0..MaxProc
  BY <1>2, ManagerAssumption DEF Start, Procs
<1> QED BY <1>1, <1>2, <1>3, <1>4 DEF ProcType, Start

\* Going on with a request keeps the types.
LEMMA TypeStep ==
    ASSUME ClientType, NEW c \in Clients, NEW label \in Labels, Step(c, label)
    PROVE ClientType'
BY DEF ClientType, Step

\* So does entering one.
LEMMA TypeEnter ==
    ASSUME ClientType, NEW c \in Clients, NEW label \in Labels, NEW i \in Ids,
           NEW p \in Procs \cup {None}, NEW dead \in BOOLEAN, Enter(c, label, i, p, dead)
    PROVE ClientType'
<1>1. "none" \in Replies
  BY DEF Replies
<1> QED BY <1>1 DEF ClientType, Enter

\* And so does returning from one.
LEMMA TypeFinish ==
    ASSUME ClientType, NEW c \in Clients, NEW answer \in Replies, Finish(c, answer)
    PROVE ClientType'
<1>1. 1 \in Ids /\ "idle" \in Labels
  BY ManagerAssumption DEF Ids, Labels
<1> QED BY <1>1 DEF ClientType, Finish

\* Closing a handle keeps the types.
LEMMA TypeStop ==
    ASSUME ProcType, NEW p, Stop(p),
           UNCHANGED <<started, sid, born, dir, loaded, mine, prompted>>
    PROVE ProcType'
BY DEF ProcType, Stop

\* Every step keeps the types. A request relies on holding the process that its
\* first step found.
LEMMA TypeNext == TypeOK /\ HoldsProcess /\ [Next]_vars => TypeOK'
<1> SUFFICES ASSUME TypeOK, HoldsProcess, [Next]_vars
             PROVE ServerType' /\ ProcType' /\ ClientType'
  BY TypeParts, PTL
<1>0. ServerType /\ ProcType /\ ClientType
  BY TypeParts
<1> USE <1>0
<1> USE DEF Labels, Replies
<1>1. ASSUME NEW c \in Clients, NEW d \in Dirs, CreateStart(c, d)
      PROVE ServerType' /\ ProcType' /\ ClientType'
  <2>1. NextId \in Ids /\ NextId \in 0..MaxId
    BY <1>1, ManagerAssumption DEF CreateStart, NextId, ServerType, Ids
  <2>2. ServerType'
    BY <1>1, <2>1 DEF CreateStart, ServerType
  <2>3. CASE Finish(c, "error") /\ UNCHANGED <<procVars, mu>>
    BY <2>2, <2>3, TypeFinish DEF procVars, ProcType
  <2>4. CASE Start(NextId, started + 1, d) /\ Enter(c, "insert", NextId, started + 1, FALSE)
    <3>1. started + 1 \in Procs
      BY <2>4, ManagerAssumption DEF Start, ProcType, Procs
    <3> QED BY <2>1, <2>2, <2>4, <3>1, TypeStart, TypeEnter
  <2> QED BY <1>1, <2>3, <2>4 DEF CreateStart
<1>2. ASSUME NEW c \in Clients, CreateInsert(c)
      PROVE ServerType' /\ ProcType' /\ ClientType'
  <2>1. target[c] \in Ids /\ held[c] \in Procs \cup {None}
    BY DEF ClientType
  <2>2. ServerType'
    BY <1>2, <2>1 DEF CreateInsert, CreateSession, Unlock, ServerType
  <2>3. ProcType'
    BY <1>2 DEF CreateInsert, procVars, ProcType
  <2>4. ClientType'
    BY <1>2, TypeFinish, TypeStep DEF CreateInsert
  <2> QED BY <2>2, <2>3, <2>4
<1>3. ASSUME NEW c \in Clients, CreateUndo(c)
      PROVE ServerType' /\ ProcType' /\ ClientType'
  BY <1>3, TypeStop, TypeStep DEF CreateUndo, CloseFailed, serverVars, ServerType
<1>4. ASSUME NEW c \in Clients, CreateUndone(c)
      PROVE ServerType' /\ ProcType' /\ ClientType'
  BY <1>4, TypeFinish DEF CreateUndone, Unlock, procVars, ServerType, ProcType
<1>5. ASSUME NEW c \in Clients, NEW i \in Ids, GetHandle(c, i)
      PROVE ServerType' /\ ProcType' /\ ClientType'
  <2>1. ServerType' /\ ProcType' /\ handles[i] \in Procs \cup {None}
    BY <1>5 DEF GetHandle, serverVars, procVars, ServerType, ProcType
  <2>2. ClientType'
    BY <1>5, <2>1, TypeFinish, TypeEnter DEF GetHandle
  <2> QED BY <2>1, <2>2
<1>6. ASSUME NEW c \in Clients, GetRow(c)
      PROVE ServerType' /\ ProcType' /\ ClientType'
  <2>1. ServerType' /\ ProcType'
    BY <1>6 DEF GetRow, serverVars, procVars, ServerType, ProcType
  <2>2. ClientType'
    BY <1>6, TypeStep, TypeFinish DEF GetRow
  <2> QED BY <2>1, <2>2
<1>7. ASSUME NEW c \in Clients, Use(c)
      PROVE ServerType' /\ ProcType' /\ ClientType'
  <2>1. ServerType' /\ ClientType'
    BY <1>7, TypeStep, TypeFinish DEF Use, serverVars, ServerType
  <2>2. held[c] \in Procs
    BY <1>7 DEF Use, HoldsProcess, ClientType
  <2>3. ProcType'
    BY <1>7, <2>2 DEF Use, ProcType
  <2> QED BY <2>1, <2>3
<1>8. ASSUME NEW c \in Clients, NEW i \in Ids, ResumeRead(c, i)
      PROVE ServerType' /\ ProcType' /\ ClientType'
  <2>1. ServerType' /\ ProcType' /\ rows[i] \in Procs \cup {None}
    BY <1>8 DEF ResumeRead, serverVars, procVars, ServerType, ProcType
  <2>2. (handles[i] # None /\ state[handles[i]] = "exited") \in BOOLEAN
    OBVIOUS
  <2>3. ClientType'
    BY <1>8, <2>1, <2>2, TypeFinish, TypeEnter DEF ResumeRead
  <2> QED BY <2>1, <2>3
<1>9. ASSUME NEW c \in Clients, ResumeLocked(c)
      PROVE ServerType' /\ ProcType' /\ ClientType'
  <2>1. target[c] \in Ids /\ held[c] \in Procs /\ RecordedDir(held[c]) \in Dirs
    BY <1>9 DEF ResumeLocked, HoldsProcess, RecordedDir, ClientType, ProcType
  <2>2. ClientType'
    BY <1>9, TypeFinish DEF ResumeLocked
  <2>3. CASE UNCHANGED <<handles, procVars>>
    BY <1>9, <2>2, <2>3 DEF ResumeLocked, procVars, ServerType, ProcType
  <2>4. CASE /\ Start(target[c], held[c], RecordedDir(held[c]))
             /\ handles' = [handles EXCEPT ![target[c]] = started + 1]
    <3>1. ProcType' /\ started + 1 \in Procs
      BY <2>1, <2>4, TypeStart
    <3>2. ServerType'
      BY <1>9, <2>1, <2>4, <3>1 DEF ResumeLocked, ServerType
    <3> QED BY <2>2, <3>1, <3>2
  <2> QED BY <1>9, <2>3, <2>4 DEF ResumeLocked
<1>10. ASSUME NEW c \in Clients, NEW i \in Ids, DeleteHandle(c, i)
       PROVE ServerType' /\ ProcType' /\ ClientType'
  <2>1. ServerType' /\ ProcType' /\ handles[i] \in Procs \cup {None}
    BY <1>10 DEF DeleteHandle, procVars, ServerType, ProcType
  <2>2. ClientType'
    BY <1>10, <2>1, TypeEnter DEF DeleteHandle
  <2> QED BY <2>1, <2>2
<1>11. ASSUME NEW c \in Clients, DeleteRow(c)
       PROVE ServerType' /\ ProcType' /\ ClientType'
  <2>1. ServerType' /\ ProcType'
    BY <1>11 DEF DeleteRow, DeleteSession, serverVars, procVars, ServerType, ProcType
  <2>2. ClientType'
    BY <1>11, TypeStep, TypeFinish DEF DeleteRow
  <2> QED BY <2>1, <2>2
<1>12. ASSUME NEW c \in Clients, DeleteClose(c)
       PROVE ServerType' /\ ProcType' /\ ClientType'
  <2>1. ServerType' /\ ProcType'
    BY <1>12, TypeStop DEF DeleteClose, serverVars, ServerType
  <2>2. ClientType'
    BY <1>12, TypeFinish DEF DeleteClose
  <2> QED BY <2>1, <2>2
<1>13. ASSUME NEW p \in Procs, PiExit(p)
       PROVE ServerType' /\ ProcType' /\ ClientType'
  BY <1>13 DEF PiExit, serverVars, clientVars, ServerType, ProcType, ClientType
<1>14. CASE Crash
  <2>1. 1 \in Ids /\ crashes + 1 \in 0..MaxCrashes
    BY <1>14, ManagerAssumption DEF Crash, ServerType, Ids
  <2>2. 0 \in 0..MaxId
    BY ManagerAssumption
  <2> QED BY <1>14, <2>1, <2>2 DEF Crash, ServerType, ProcType, ClientType
<1>15. CASE Boot
  <2>1. MaxSessionID \in 0..MaxId
    BY SeedBehindNone
  <2> QED BY <1>15, <2>1 DEF Boot, procVars, clientVars, ServerType, ProcType, ClientType
<1>16. CASE UNCHANGED vars
  BY <1>16 DEF vars, serverVars, procVars, clientVars, ServerType, ProcType, ClientType
<1>17. ASSUME NEW c \in Clients, UseReturns(c)
       PROVE ServerType' /\ ProcType' /\ ClientType'
  <2>1. ServerType' /\ ProcType'
    BY <1>17 DEF UseReturns, serverVars, procVars, ServerType, ProcType
  <2>2. ClientType'
    BY <1>17, TypeFinish DEF UseReturns
  <2> QED BY <2>1, <2>2
<1>18. ASSUME NEW p \in Procs, PiWrites(p)
       PROVE ServerType' /\ ProcType' /\ ClientType'
  <2>1. ProcType' /\ ClientType'
    BY <1>18 DEF PiWrites, procVars, clientVars, ProcType, ClientType
  <2>2. sid[p] \in Ids /\ dir[p] \in Dirs /\ born[p] \in Procs
    BY DEF ProcType
  <2>3. transcripts' \in [Ids -> [Dirs -> SUBSET Procs]]
    BY <1>18, <2>2 DEF PiWrites, ServerType
  <2>4. ServerType'
    BY <1>18, <2>3 DEF PiWrites, serverVars, ServerType
  <2> QED BY <2>1, <2>4
<1> QED BY <1>1, <1>2, <1>3, <1>4, <1>5, <1>6, <1>7, <1>8, <1>9, <1>10, <1>11, <1>12,
           <1>13, <1>14, <1>15, <1>16, <1>17, <1>18 DEF Next, ClientStep

---------------------------------------------------------------------------
(* The rest of the invariant, action by action.                              *)

Rest ==
    /\ StartedOnly /\ DownIsEmpty /\ HoldsProcess /\ Creating /\ Resuming
    /\ CounterAhead /\ NoLostProcess /\ HandleServesItsRow

\* None is no process and no client; ids and processes are numbers.
LEMMA NoneApart == None \notin Procs /\ None \notin Clients /\ Procs \subseteq Nat /\ Ids \subseteq Nat
BY ManagerAssumption DEF Procs, Ids

\* The clients other than c stay where they are.
Others(c) == \A d \in Clients : d # c =>
    pc'[d] = pc[d] /\ target'[d] = target[d] /\ held'[d] = held[d]

\* Going on with a request changes the label of its client only.
LEMMA StepEffect ==
    ASSUME ClientType, NEW c \in Clients, NEW label, Step(c, label)
    PROVE pc'[c] = label /\ target' = target /\ held' = held /\ Others(c)
BY DEF ClientType, Step, Others

\* Entering a request gives its client what the request found.
LEMMA EnterEffect ==
    ASSUME ClientType, NEW c \in Clients, NEW label, NEW i, NEW p, NEW dead,
           Enter(c, label, i, p, dead)
    PROVE pc'[c] = label /\ target'[c] = i /\ held'[c] = p /\ Others(c)
BY DEF ClientType, Enter, Others

\* A client that has its answer holds nothing any more.
LEMMA FinishEffect ==
    ASSUME ClientType, NEW c \in Clients, NEW answer, Finish(c, answer)
    PROVE pc'[c] = "idle" /\ held'[c] = None /\ Others(c)
BY DEF ClientType, Finish, Others

\* While m.mu is free no Create is under way.
LEMMA FreeMutex ==
    ASSUME Creating, mu = None
    PROVE \A d \in Clients : pc[d] \notin {"insert", "undo", "undone"}
BY NoneApart DEF Creating

\* What a new process is, and that the others stay what they are.
LEMMA StartEffect ==
    ASSUME ServerType, ProcType, NEW s \in Ids, NEW birth \in Procs, NEW d \in Dirs,
           Start(s, birth, d)
    PROVE /\ started' = started + 1 /\ started + 1 \in Procs
          /\ sid'[started + 1] = s /\ born'[started + 1] = birth
          /\ mine' = mine \cup {started + 1}
          /\ \A p \in Procs : p # started + 1 =>
                state'[p] = state[p] /\ sid'[p] = sid[p] /\ born'[p] = born[p]
<1>1. started + 1 \in Procs
  BY TypeStart
<1> QED BY <1>1 DEF Start, ProcType

\* A Create that fails before the insert has only moved the counter on.
LEMMA RestCreateFails ==
    ASSUME IInv, NEW c \in Clients, NEW d \in Dirs, CreateStart(c, d),
           Finish(c, "error"), UNCHANGED <<procVars, mu>>
    PROVE Rest'
<1>1. ClientType /\ ServerType /\ Rest
  BY TypeParts DEF IInv, Rest
<1>2. pc'[c] = "idle" /\ held'[c] = None /\ Others(c)
  BY <1>1, FinishEffect
<1>3. /\ pc[c] = "idle" /\ up /\ up' /\ mu = None /\ counter' = counter + 1
      /\ UNCHANGED <<handles, rows, started, state, sid, born, mine>>
  BY DEF CreateStart, Called, NextId, procVars
<1>4. counter \in Nat
  BY <1>1, ManagerAssumption DEF ServerType
<1>5. \A e \in Clients : pc[e] \notin {"insert", "undo", "undone"}
  BY <1>1, <1>3, FreeMutex DEF Rest
<1>6. \A e \in Clients : target[e] \in Nat
  BY <1>1, NoneApart DEF ClientType
<1>7. StartedOnly' /\ DownIsEmpty' /\ HoldsProcess' /\ CounterAhead'
  BY <1>1, <1>2, <1>3, <1>4, NoneApart
     DEF Rest, Others, StartedOnly, DownIsEmpty, HoldsProcess, CounterAhead
<1>8. Creating' /\ HandleServesItsRow'
  BY <1>1, <1>2, <1>3, <1>5 DEF Rest, Others, Creating, HandleServesItsRow
<1>9. Resuming'
  BY <1>1, <1>2, <1>3, <1>4, <1>5, <1>6 DEF Rest, Others, Resuming
<1>10. NoLostProcess'
  BY <1>1, <1>2, <1>3, <1>5 DEF Rest, Others, NoLostProcess
<1> QED BY <1>7, <1>8, <1>9, <1>10 DEF Rest

\* Create has taken an id nobody has, and m.mu: what it started is in its hands.
LEMMA RestCreateStarts ==
    ASSUME IInv, NEW c \in Clients, NEW d \in Dirs, CreateStart(c, d),
           Start(NextId, started + 1, d), mu' = c,
           Enter(c, "insert", NextId, started + 1, FALSE)
    PROVE Rest'
<1> DEFINE p == started + 1
<1>1. ClientType /\ ServerType /\ ProcType /\ Rest
  BY TypeParts DEF IInv, Rest
<1>2. pc'[c] = "insert" /\ target'[c] = counter + 1 /\ held'[c] = p /\ Others(c)
  BY <1>1, EnterEffect DEF NextId
<1>3. /\ pc[c] = "idle" /\ up /\ up' /\ mu = None /\ counter' = counter + 1
      /\ UNCHANGED <<handles, rows>>
  BY DEF CreateStart, Called, NextId
<1>4. counter \in Nat /\ counter + 1 \in Ids /\ started \in Nat
  BY <1>1, ManagerAssumption DEF ServerType, ProcType, CreateStart, NextId, Ids
<1>5. p \in Procs
  BY <1>4, ManagerAssumption DEF Start, Procs
<1>6. /\ started' = p
      /\ sid'[p] = counter + 1 /\ born'[p] = p /\ mine' = mine \cup {p}
      /\ \A q \in Procs : q # p => state'[q] = state[q] /\ sid'[q] = sid[q] /\ born'[q] = born[q]
  BY <1>1, <1>4, <1>5, StartEffect DEF NextId
<1>7. \A e \in Clients : pc[e] \notin {"insert", "undo", "undone"}
  BY <1>1, <1>3, FreeMutex DEF Rest
<1>8. /\ \A e \in Clients : target[e] \in Nat /\ held[e] \in Procs \cup {None}
      /\ \A i \in Ids : handles[i] \in Procs \cup {None} /\ rows[i] \in Procs \cup {None}
      /\ mine \subseteq Procs
  BY <1>1, NoneApart DEF ClientType, ServerType, ProcType
<1>9. handles[counter + 1] = None /\ rows[counter + 1] = None
  BY <1>1, <1>3, <1>4, NoneApart DEF Rest, CounterAhead
<1> HIDE DEF p
<1>10. StartedOnly'
  <2>1. \A q \in Procs : q =< started => q =< p
    BY <1>4, NoneApart DEF p
  <2>2. \A e \in Clients : e # c => held'[e] = held[e]
    BY <1>2 DEF Others
  <2>3. p =< p
    BY <1>5, NoneApart
  <2>4. \A i \in Ids : (handles[i] # None => handles[i] =< p) /\ (rows[i] # None => rows[i] =< p)
    BY <1>1, <1>8, <2>1 DEF Rest, StartedOnly
  <2>5. \A e \in Clients : held'[e] # None => held'[e] =< p
    BY <1>1, <1>2, <1>8, <2>1, <2>2, <2>3 DEF Rest, StartedOnly
  <2> QED BY <1>3, <1>6, <2>4, <2>5 DEF StartedOnly
<1>11. DownIsEmpty' /\ HoldsProcess' /\ CounterAhead'
  BY <1>1, <1>2, <1>3, <1>4, <1>5, NoneApart
     DEF Rest, Others, DownIsEmpty, HoldsProcess, CounterAhead
<1>12. Creating'
  BY <1>1, <1>2, <1>3, <1>4, <1>6, <1>7, <1>9 DEF Rest, Others, Creating
<1>13. Resuming'
  BY <1>1, <1>2, <1>3, <1>4, <1>7, <1>8 DEF Rest, Others, Resuming
<1>14. NoLostProcess'
  BY <1>1, <1>2, <1>3, <1>6, <1>8 DEF Rest, Others, NoLostProcess
<1>15. HandleServesItsRow'
  <2>1. \A i \in Ids : handles[i] # p
    BY <1>1, <1>4, <1>5, <1>8, NoneApart DEF p, Rest, StartedOnly
  <2> QED BY <1>1, <1>3, <1>6, <1>8, <2>1 DEF Rest, HandleServesItsRow
<1> QED BY <1>10, <1>11, <1>12, <1>13, <1>14, <1>15 DEF Rest

\* The insert went in: the session is stored and registered under an id that no
\* Resume is waiting with.
LEMMA RestCreateInserts ==
    ASSUME IInv, NEW c \in Clients, CreateInsert(c), CreateSession(target[c], held[c]),
           handles' = [handles EXCEPT ![target[c]] = held[c]], Unlock, Finish(c, "ok")
    PROVE Rest'
<1> DEFINE i == target[c]
           p == held[c]
<1>1. ClientType /\ ServerType /\ ProcType /\ Rest
  BY TypeParts DEF IInv, Rest
<1>2. pc'[c] = "idle" /\ held'[c] = None /\ Others(c)
  BY <1>1, FinishEffect
<1>3. /\ pc[c] = "insert" /\ UNCHANGED <<up, counter, started, state, sid, born, mine>>
  BY DEF CreateInsert, procVars
<1>4. i \in Ids /\ p \in Procs
  BY <1>1, <1>3 DEF ClientType, Rest, HoldsProcess
<1>5. /\ i =< counter /\ handles[i] = None /\ rows[i] = None /\ sid[p] = i /\ born[p] = p
      /\ mu = c
  BY <1>1, <1>3 DEF Rest, Creating
<1>6. /\ handles'[i] = p /\ rows'[i] = p
      /\ \A j \in Ids : j # i => handles'[j] = handles[j] /\ rows'[j] = rows[j]
  BY <1>1, <1>4 DEF CreateSession, ServerType
<1>7. \A e \in Clients : e # c => pc[e] \notin {"insert", "undo", "undone"}
  BY <1>1, <1>5 DEF Rest, Creating
<1>8. \A e \in Clients : pc[e] = "resume" => target[e] # i /\ target[e] \in Ids
  BY <1>1, <1>3 DEF Rest, Resuming, ClientType
<1>9. \A q \in mine : q \in Procs /\ sid[q] \in Ids
  BY <1>1 DEF ProcType
<1> HIDE DEF i, p
<1>10. StartedOnly'
  <2>1. p =< started
    BY <1>1, <1>4, NoneApart DEF p, Rest, StartedOnly
  <2> QED BY <1>1, <1>2, <1>3, <1>6, <2>1 DEF Rest, Others, StartedOnly
<1>11. up
  BY <1>1, <1>3 DEF Rest, DownIsEmpty
<1>12. DownIsEmpty' /\ HoldsProcess' /\ CounterAhead'
  BY <1>1, <1>2, <1>3, <1>5, <1>6, <1>11
     DEF Rest, Others, DownIsEmpty, HoldsProcess, CounterAhead
<1>13. Creating'
  BY <1>2, <1>7 DEF Others, Creating
<1>14. Resuming'
  BY <1>1, <1>2, <1>3, <1>6, <1>7, <1>8 DEF Rest, Others, Resuming
<1>15. NoLostProcess'
  <2> SUFFICES ASSUME NEW q \in mine, state[q] = "running"
               PROVE \/ handles'[sid[q]] = q
                     \/ \E e \in Clients : /\ held'[e] = q
                            /\ pc'[e] \in {"insert", "undo", "deleteRow", "deleteClose"}
    BY <1>3 DEF NoLostProcess
  <2>1. CASE q = p
    BY <1>5, <1>6, <2>1
  <2>2. CASE q # p
    <3>1. \/ handles[sid[q]] = q
          \/ \E e \in Clients : /\ held[e] = q
                 /\ pc[e] \in {"insert", "undo", "deleteRow", "deleteClose"}
      BY <1>1 DEF Rest, NoLostProcess
    <3>2. CASE handles[sid[q]] = q
      BY <1>5, <1>6, <1>9, <3>2, NoneApart
    <3>3. CASE \E e \in Clients : /\ held[e] = q
                  /\ pc[e] \in {"insert", "undo", "deleteRow", "deleteClose"}
      BY <1>2, <2>2, <3>3 DEF p, Others
    <3> QED BY <3>1, <3>2, <3>3
  <2> QED BY <2>1, <2>2
<1>16. HandleServesItsRow'
  BY <1>1, <1>3, <1>5, <1>6 DEF Rest, HandleServesItsRow
<1> QED BY <1>10, <1>12, <1>13, <1>14, <1>15, <1>16 DEF Rest

\* A client goes on to, or leaves, a step that holds what it held, and nothing
\* else changes: the shape of the steps that fail and of those that read.
LEMMA RestMovesOn ==
    ASSUME IInv, NEW c \in Clients, Others(c),
           pc[c] \notin {"undo", "deleteRow", "deleteClose"},
           UNCHANGED <<up, counter, mu, handles, rows, started, state, sid, born, mine>>,
           held'[c] \in {held[c], None},
           \/ pc'[c] = "idle" /\ pc[c] # "insert"
           \/ pc'[c] = "undo" /\ pc[c] = "insert" /\ held'[c] = held[c]
           \/ pc'[c] = "use" /\ pc[c] = "getRow" /\ held'[c] = held[c]
           \/ pc'[c] = "answer" /\ pc[c] = "use"
    PROVE Rest'
<1>1. ClientType /\ Rest
  BY TypeParts DEF IInv, Rest
<1>2. StartedOnly' /\ DownIsEmpty' /\ HoldsProcess' /\ CounterAhead' /\ HandleServesItsRow'
  BY <1>1 DEF Rest, Others, StartedOnly, DownIsEmpty, HoldsProcess, CounterAhead,
              HandleServesItsRow
<1>3. Creating' /\ Resuming'
  BY <1>1 DEF Rest, Others, Creating, Resuming
<1>4. NoLostProcess'
  BY <1>1 DEF Rest, Others, NoLostProcess
<1> QED BY <1>2, <1>3, <1>4 DEF Rest

\* A failed Create closes its Pi, then returns m.mu; a Delete closes the Pi it
\* took out.
LEMMA RestCloses ==
    ASSUME IInv, NEW c \in Clients, Others(c), Stop(held[c]),
           UNCHANGED <<up, counter, mu, handles, rows, started, sid, born, mine>>,
           \/ pc'[c] = "undone" /\ pc[c] = "undo" /\ held' = held
           \/ pc'[c] = "idle" /\ pc[c] = "deleteClose" /\ held'[c] = None
    PROVE Rest'
<1>1. ClientType /\ ProcType /\ Rest
  BY TypeParts DEF IInv, Rest
<1>2. StartedOnly' /\ DownIsEmpty' /\ HoldsProcess' /\ CounterAhead' /\ HandleServesItsRow'
  BY <1>1 DEF Rest, Others, StartedOnly, DownIsEmpty, HoldsProcess, CounterAhead,
              HandleServesItsRow
<1>3. Creating' /\ Resuming'
  BY <1>1 DEF Rest, Others, Creating, Resuming
<1>4. \A q \in mine : state'[q] = "running" => state[q] = "running" /\ q # held[c]
  BY <1>1 DEF ProcType, Stop
<1>5. NoLostProcess'
  BY <1>1, <1>4 DEF Rest, Others, NoLostProcess
<1> QED BY <1>2, <1>3, <1>5 DEF Rest

\* A failed Create, its Pi closed, gives m.mu back.
LEMMA RestCreateUndone ==
    ASSUME IInv, NEW c \in Clients, CreateUndone(c)
    PROVE Rest'
<1>1. ClientType /\ Rest
  BY TypeParts DEF IInv, Rest
<1>2. pc[c] = "undone" /\ pc'[c] = "idle" /\ held'[c] = None /\ Others(c)
  BY <1>1, FinishEffect DEF CreateUndone
<1>3. UNCHANGED <<up, counter, handles, rows, started, state, sid, born, mine>>
  BY DEF CreateUndone, procVars
<1>4. \A e \in Clients : e # c => pc[e] \notin {"insert", "undo", "undone"}
  BY <1>1, <1>2 DEF Rest, Creating
<1>5. StartedOnly' /\ DownIsEmpty' /\ HoldsProcess' /\ CounterAhead' /\ HandleServesItsRow'
  BY <1>1, <1>2, <1>3 DEF Rest, Others, StartedOnly, DownIsEmpty, HoldsProcess, CounterAhead,
              HandleServesItsRow
<1>6. Creating' /\ Resuming'
  BY <1>1, <1>2, <1>3, <1>4 DEF Rest, Others, Creating, Resuming
<1>7. NoLostProcess'
  BY <1>1, <1>2, <1>3 DEF Rest, Others, NoLostProcess
<1> QED BY <1>5, <1>6, <1>7 DEF Rest

\* Get finds a registered process, Resume a stored row of an id that is behind
\* the counter and in no Create's hands.
LEMMA RestEnters ==
    ASSUME IInv, NEW c \in Clients, NEW i \in Ids, Called(c), NEW p \in Procs,
           pc'[c] = "getRow" \/ (pc'[c] = "resume" /\ rows[i] = p),
           target'[c] = i, held'[c] = p, Others(c), p =< started,
           UNCHANGED <<up, counter, mu, handles, rows, started, state, sid, born, mine>>
    PROVE Rest'
<1>1. ClientType /\ Rest /\ up /\ pc[c] = "idle" /\ p # None
  BY TypeParts, NoneApart DEF IInv, Rest, Called
<1>2. StartedOnly' /\ DownIsEmpty' /\ HoldsProcess' /\ CounterAhead' /\ HandleServesItsRow'
  BY <1>1 DEF Rest, Others, StartedOnly, DownIsEmpty, HoldsProcess, CounterAhead,
              HandleServesItsRow
<1>3. Creating'
  BY <1>1 DEF Rest, Others, Creating
<1>4. Resuming'
  <2>1. \A e \in Clients : pc'[e] = "insert" =>
            e # c /\ pc[e] = "insert" /\ target'[e] = target[e] /\ rows[target[e]] = None
    BY <1>1 DEF Rest, Others, Creating
  <2>2. \A e \in Clients : e # c /\ pc'[e] = "resume" =>
            pc[e] = "resume" /\ target'[e] = target[e] /\ held'[e] = held[e]
    BY DEF Others
  <2>3. pc'[c] = "resume" => i =< counter /\ rows[i] = p /\ rows[i] # None
    BY <1>1 DEF Rest, CounterAhead
  <2> QED BY <1>1, <2>1, <2>2, <2>3 DEF Rest, Resuming
<1>5. NoLostProcess'
  BY <1>1 DEF Rest, Others, NoLostProcess
<1> QED BY <1>2, <1>3, <1>4, <1>5 DEF Rest

\* Resume has started a process for the row it read, and nobody else's id.
LEMMA RestResumeStarts ==
    ASSUME IInv, NEW c \in Clients, ResumeLocked(c), ~Attached(target[c]),
           Start(target[c], held[c], RecordedDir(held[c])),
           handles' = [handles EXCEPT ![target[c]] = started + 1], Finish(c, "ready")
    PROVE Rest'
<1> DEFINE i == target[c]
           p == started + 1
<1>1. ClientType /\ ServerType /\ ProcType /\ Rest
  BY TypeParts DEF IInv, Rest
<1>2. pc'[c] = "idle" /\ held'[c] = None /\ Others(c)
  BY <1>1, FinishEffect
<1>3. pc[c] = "resume" /\ mu = None /\ UNCHANGED <<up, counter, mu, rows>>
  BY DEF ResumeLocked
<1>4. i \in Ids /\ held[c] \in Procs /\ RecordedDir(held[c]) \in Dirs
  BY <1>1, <1>3 DEF ClientType, ProcType, Rest, HoldsProcess, RecordedDir
<1>5. i =< counter /\ rows[i] \in {None, held[c]} /\ handles[i] = None
  BY <1>1, <1>3 DEF Rest, Resuming, Attached
<1>6. /\ started' = p /\ p \in Procs
      /\ sid'[p] = i /\ born'[p] = held[c] /\ mine' = mine \cup {p}
      /\ \A q \in Procs : q # p => state'[q] = state[q] /\ sid'[q] = sid[q] /\ born'[q] = born[q]
  BY <1>1, <1>4, StartEffect
<1>7. handles'[i] = p /\ \A j \in Ids : j # i => handles'[j] = handles[j]
  BY <1>1, <1>4 DEF ServerType
<1>8. \A e \in Clients : pc[e] \notin {"insert", "undo", "undone"}
  BY <1>1, <1>3, FreeMutex DEF Rest
<1>9. /\ \A e \in Clients : held[e] \in Procs \cup {None}
      /\ \A j \in Ids : handles[j] \in Procs \cup {None} /\ rows[j] \in Procs \cup {None}
      /\ \A q \in mine : q \in Procs /\ sid[q] \in Ids
  BY <1>1 DEF ClientType, ServerType, ProcType
<1>10. \A q \in Procs : q =< started => q =< p /\ q # p
  BY <1>1, NoneApart DEF ProcType
<1>11. p =< p
  BY <1>6, NoneApart
<1> HIDE DEF i, p
<1>12. up
  BY <1>1, <1>3 DEF Rest, DownIsEmpty
<1>13. StartedOnly'
  <2>1. \A j \in Ids : (handles'[j] # None => handles'[j] =< p) /\ (rows[j] # None => rows[j] =< p)
    BY <1>1, <1>7, <1>9, <1>10, <1>11 DEF Rest, StartedOnly
  <2>2. \A e \in Clients : held'[e] # None => held'[e] =< p
    BY <1>1, <1>2, <1>9, <1>10 DEF Rest, Others, StartedOnly
  <2> QED BY <1>3, <1>6, <2>1, <2>2 DEF StartedOnly
<1>14. DownIsEmpty' /\ HoldsProcess' /\ CounterAhead'
  BY <1>1, <1>2, <1>3, <1>5, <1>7, <1>12
     DEF Rest, Others, DownIsEmpty, HoldsProcess, CounterAhead
<1>15. Creating'
  BY <1>2, <1>8 DEF Others, Creating
<1>16. Resuming'
  BY <1>1, <1>2, <1>3, <1>8 DEF Rest, Others, Resuming
<1>17. NoLostProcess'
  <2> SUFFICES ASSUME NEW q \in mine', state'[q] = "running"
               PROVE \/ handles'[sid'[q]] = q
                     \/ \E e \in Clients : /\ held'[e] = q
                            /\ pc'[e] \in {"insert", "undo", "deleteRow", "deleteClose"}
    BY DEF NoLostProcess
  <2>1. CASE q = p
    BY <1>6, <1>7, <2>1
  <2>2. CASE q # p
    <3>1. q \in mine /\ q \in Procs /\ state[q] = "running" /\ sid'[q] = sid[q]
      BY <1>6, <1>9, <2>2
    <3>2. \/ handles[sid[q]] = q
          \/ \E e \in Clients : /\ held[e] = q
                 /\ pc[e] \in {"insert", "undo", "deleteRow", "deleteClose"}
      BY <1>1, <3>1 DEF Rest, NoLostProcess
    <3>3. CASE handles[sid[q]] = q
      BY <1>5, <1>7, <1>9, <3>1, <3>3, NoneApart
    <3>4. CASE \E e \in Clients : /\ held[e] = q
                  /\ pc[e] \in {"insert", "undo", "deleteRow", "deleteClose"}
      BY <1>2, <1>3, <3>4 DEF Others
    <3> QED BY <3>2, <3>3, <3>4
  <2> QED BY <2>1, <2>2
<1>18. HandleServesItsRow'
  <2> SUFFICES ASSUME NEW j \in Ids, handles'[j] # None, rows[j] # None
               PROVE born'[handles'[j]] = rows[j]
    BY <1>3 DEF HandleServesItsRow
  <2>1. CASE j = i
    BY <1>5, <1>6, <1>7, <2>1
  <2>2. CASE j # i
    <3>1. handles'[j] = handles[j] /\ handles[j] \in Procs /\ handles[j] =< started
      BY <1>1, <1>7, <1>9, <2>2 DEF Rest, StartedOnly
    <3>2. handles[j] # p /\ born[handles[j]] = rows[j]
      BY <1>1, <1>10, <3>1 DEF Rest, HandleServesItsRow
    <3> QED BY <1>6, <3>1, <3>2
  <2> QED BY <2>1, <2>2
<1> QED BY <1>13, <1>14, <1>15, <1>16, <1>17, <1>18 DEF Rest

\* A Delete takes the handle out and keeps it in its hands.
LEMMA RestDeleteHandle ==
    ASSUME IInv, NEW c \in Clients, NEW i \in Ids, DeleteHandle(c, i)
    PROVE Rest'
<1>1. ClientType /\ ServerType /\ ProcType /\ Rest
  BY TypeParts DEF IInv, Rest
<1>2. pc[c] = "idle" /\ pc'[c] = "deleteRow" /\ held'[c] = handles[i] /\ Others(c)
  BY <1>1, EnterEffect DEF DeleteHandle, Called
<1>3. mu = None /\ up /\ UNCHANGED <<up, counter, mu, rows, started, state, sid, born, mine>>
  BY DEF DeleteHandle, procVars, Called
<1>4. handles'[i] = None /\ \A j \in Ids : j # i => handles'[j] = handles[j]
  BY <1>1 DEF DeleteHandle, ServerType
<1>5. \A e \in Clients : pc[e] \notin {"insert", "undo", "undone"}
  BY <1>1, <1>3, FreeMutex DEF Rest
<1>6. StartedOnly' /\ DownIsEmpty' /\ HoldsProcess' /\ CounterAhead' /\ HandleServesItsRow'
  BY <1>1, <1>2, <1>3, <1>4 DEF Rest, Others, StartedOnly, DownIsEmpty, HoldsProcess,
              CounterAhead, HandleServesItsRow
<1>7. Creating' /\ Resuming'
  BY <1>1, <1>2, <1>3, <1>5 DEF Rest, Others, Creating, Resuming
<1>8. NoLostProcess'
  <2>1. \A q \in mine : sid[q] \in Ids
    BY <1>1 DEF ProcType
  <2> QED BY <1>1, <1>2, <1>3, <1>4, <2>1 DEF Rest, Others, NoLostProcess
<1> QED BY <1>6, <1>7, <1>8 DEF Rest

\* A Delete removes the row, if the store lets it, and lets go of nothing.
LEMMA RestDeleteRow ==
    ASSUME IInv, NEW c \in Clients, DeleteRow(c)
    PROVE Rest'
<1>1. ClientType /\ ServerType /\ ProcType /\ Rest
  BY TypeParts DEF IInv, Rest
<1>2. Others(c) /\ \/ pc'[c] = "deleteClose" /\ held' = held /\ held[c] # None
                   \/ pc'[c] = "idle" /\ held'[c] = None /\ held[c] = None
  BY <1>1, StepEffect, FinishEffect DEF DeleteRow
<1>3. pc[c] = "deleteRow" /\ UNCHANGED <<up, counter, mu, handles, started, state, sid, born, mine>>
  BY DEF DeleteRow, serverVars, procVars
<1>4. \A j \in Ids : rows'[j] \in {rows[j], None}
  BY <1>1 DEF DeleteRow, DeleteSession, ServerType
<1>5. \A e \in Clients : target[e] \in Ids
  BY <1>1 DEF ClientType
<1>6. StartedOnly' /\ DownIsEmpty' /\ HoldsProcess' /\ CounterAhead' /\ HandleServesItsRow'
  BY <1>1, <1>2, <1>3, <1>4 DEF Rest, Others, StartedOnly, DownIsEmpty, HoldsProcess,
              CounterAhead, HandleServesItsRow
<1>7. Creating'
  BY <1>1, <1>2, <1>3, <1>4, <1>5 DEF Rest, Others, Creating
<1>8. Resuming'
  BY <1>1, <1>2, <1>3, <1>4, <1>5 DEF Rest, Others, Resuming
<1>9. NoLostProcess'
  <2>1. \A q \in mine : q # None
    BY <1>1, NoneApart DEF ProcType
  <2> QED BY <1>1, <1>2, <1>3, <2>1 DEF Rest, Others, NoLostProcess
<1> QED BY <1>6, <1>7, <1>8, <1>9 DEF Rest

\* The server ends: nothing is registered and no request runs any more.
LEMMA RestCrash == IInv /\ Crash => Rest'
<1> SUFFICES ASSUME IInv, Crash PROVE Rest'
  OBVIOUS
<1>1. /\ \A i \in Ids : handles'[i] = None
      /\ \A c \in Clients : pc'[c] = "idle" /\ held'[c] = None
      /\ up' = FALSE /\ mine' = {} /\ UNCHANGED <<rows, started>>
  BY DEF Crash
<1> QED BY <1>1 DEF IInv, Rest, StartedOnly, DownIsEmpty, HoldsProcess, Creating, Resuming,
            CounterAhead, NoLostProcess, HandleServesItsRow

\* The server starts with the counter at the last stored session, and nothing
\* but the store has survived.
LEMMA RestBoot == IInv /\ Boot => Rest'
<1> SUFFICES ASSUME IInv, Boot PROVE Rest'
  OBVIOUS
<1>1. /\ ~up /\ counter' = MaxSessionID
      /\ UNCHANGED <<mu, handles, rows, started, state, sid, born, mine, pc, target, held>>
  BY DEF Boot, procVars, clientVars
<1>2. \A i \in Ids : handles[i] = None
  BY <1>1 DEF IInv, DownIsEmpty
<1>3. \A c \in Clients : pc[c] = "idle"
  BY <1>1 DEF IInv, DownIsEmpty
<1>4. \A i \in Ids : rows[i] # None => i =< MaxSessionID
  BY SeedBehindNone DEF IInv
<1> QED BY <1>1, <1>2, <1>3, <1>4
        DEF IInv, Rest, StartedOnly, DownIsEmpty, HoldsProcess, Creating, Resuming,
            CounterAhead, NoLostProcess, HandleServesItsRow

---------------------------------------------------------------------------
(* The invariant.                                                            *)

\* An empty store and a Manager just made satisfy it.
LEMMA InvInit == Init => IInv
<1>1. Init => TypeOK
  BY TypeInit
<1> QED BY <1>1, ManagerAssumption
        DEF Init, IInv, StartedOnly, DownIsEmpty, HoldsProcess, Creating, Resuming,
            CounterAhead, NoLostProcess, HandleServesItsRow

\* Every step of every client, process and server keeps it.
LEMMA InvNext == IInv /\ [Next]_vars => IInv'
<1> SUFFICES ASSUME IInv, [Next]_vars PROVE TypeOK' /\ Rest'
  BY DEF IInv, Rest
<1>0. TypeOK'
  BY TypeNext DEF IInv
<1>1. ClientType /\ ServerType /\ Rest
  BY TypeParts DEF IInv, Rest
<1>2. ASSUME NEW c \in Clients, NEW d \in Dirs, CreateStart(c, d) PROVE Rest'
  BY <1>2, RestCreateFails, RestCreateStarts DEF CreateStart
<1>3. ASSUME NEW c \in Clients, CreateInsert(c) PROVE Rest'
  <2>1. CASE Step(c, "undo") /\ UNCHANGED <<rows, handles, mu>>
    <3>1. pc'[c] = "undo" /\ held' = held /\ Others(c) /\ pc[c] = "insert"
      BY <1>1, <1>3, <2>1, StepEffect DEF CreateInsert
    <3> QED BY <1>3, <2>1, <3>1, RestMovesOn DEF CreateInsert, procVars
  <2> QED BY <1>3, <2>1, RestCreateInserts DEF CreateInsert
<1>4. ASSUME NEW c \in Clients, CreateUndo(c) PROVE Rest'
  <2>1. pc'[c] = "undone" /\ held' = held /\ Others(c) /\ pc[c] = "undo"
    BY <1>1, <1>4, StepEffect DEF CreateUndo
  <2> QED BY <1>4, <2>1, RestCloses DEF CreateUndo, CloseFailed, serverVars
<1>5. ASSUME NEW c \in Clients, CreateUndone(c) PROVE Rest'
  BY <1>5, RestCreateUndone
<1>6. ASSUME NEW c \in Clients, NEW i \in Ids, GetHandle(c, i) PROVE Rest'
  <2>1. UNCHANGED <<up, counter, mu, handles, rows, started, state, sid, born, mine>>
    BY <1>6 DEF GetHandle, serverVars, procVars
  <2>2. CASE handles[i] = None
    <3>1. pc'[c] = "idle" /\ held'[c] = None /\ Others(c) /\ pc[c] = "idle"
      BY <1>1, <1>6, <2>2, FinishEffect DEF GetHandle, Called
    <3> QED BY <2>1, <3>1, RestMovesOn
  <2>3. CASE handles[i] # None
    <3>1. /\ pc'[c] = "getRow" /\ target'[c] = i /\ held'[c] = handles[i] /\ Others(c)
          /\ Called(c)
      BY <1>1, <1>6, <2>3, EnterEffect DEF GetHandle
    <3>2. handles[i] \in Procs /\ handles[i] =< started
      BY <1>1, <2>3 DEF ServerType, Rest, StartedOnly
    <3> QED BY <2>1, <3>1, <3>2, RestEnters
  <2> QED BY <2>2, <2>3
<1>7. ASSUME NEW c \in Clients, GetRow(c) PROVE Rest'
  <2>1. UNCHANGED <<up, counter, mu, handles, rows, started, state, sid, born, mine>>
    BY <1>7 DEF GetRow, serverVars, procVars
  <2>2. /\ pc[c] = "getRow" /\ Others(c)
        /\ \/ pc'[c] = "use" /\ held'[c] = held[c]
           \/ pc'[c] = "idle" /\ held'[c] = None
    BY <1>1, <1>7, StepEffect, FinishEffect DEF GetRow
  <2> QED BY <2>1, <2>2, RestMovesOn
<1>8. ASSUME NEW c \in Clients, Use(c) PROVE Rest'
  <2>1. UNCHANGED <<up, counter, mu, handles, rows, started, state, sid, born, mine>>
    BY <1>8 DEF Use, serverVars
  <2>2. /\ pc[c] = "use" /\ Others(c) /\ pc'[c] \in {"idle", "answer"}
        /\ held'[c] \in {held[c], None}
    BY <1>1, <1>8, StepEffect, FinishEffect DEF Use
  <2> QED BY <2>1, <2>2, RestMovesOn
<1>9. ASSUME NEW c \in Clients, NEW i \in Ids, ResumeRead(c, i) PROVE Rest'
  <2>1. UNCHANGED <<up, counter, mu, handles, rows, started, state, sid, born, mine>>
    BY <1>9 DEF ResumeRead, serverVars, procVars
  <2>2. CASE \E answer \in Replies : Finish(c, answer)
    <3>1. pc'[c] = "idle" /\ held'[c] = None /\ Others(c) /\ pc[c] = "idle"
      BY <1>1, <1>9, <2>2, FinishEffect DEF ResumeRead, Called
    <3> QED BY <2>1, <3>1, RestMovesOn
  <2>3. CASE /\ Stored(i)
             /\ Enter(c, "resume", i, rows[i], handles[i] # None /\ state[handles[i]] = "exited")
    <3>1. /\ pc'[c] = "resume" /\ target'[c] = i /\ held'[c] = rows[i] /\ Others(c)
          /\ Called(c)
      BY <1>1, <1>9, <2>3, EnterEffect DEF ResumeRead
    <3>2. rows[i] \in Procs /\ rows[i] =< started
      BY <1>1, <2>3 DEF ServerType, Rest, StartedOnly, Stored
    <3> QED BY <2>1, <3>1, <3>2, RestEnters
  <2> QED BY <1>9, <2>2, <2>3 DEF ResumeRead, Replies
<1>10. ASSUME NEW c \in Clients, ResumeLocked(c) PROVE Rest'
  <2>1. CASE UNCHANGED <<handles, procVars>> /\ \E answer \in Replies : Finish(c, answer)
    <3>1. pc'[c] = "idle" /\ held'[c] = None /\ Others(c) /\ pc[c] = "resume"
      BY <1>1, <1>10, <2>1, FinishEffect DEF ResumeLocked
    <3>2. UNCHANGED <<up, counter, mu, handles, rows, started, state, sid, born, mine>>
      BY <1>10, <2>1 DEF ResumeLocked, procVars
    <3> QED BY <3>1, <3>2, RestMovesOn
  <2> QED BY <1>10, <2>1, RestResumeStarts DEF ResumeLocked, Replies
<1>11. ASSUME NEW c \in Clients, NEW i \in Ids, DeleteHandle(c, i) PROVE Rest'
  BY <1>11, RestDeleteHandle
<1>12. ASSUME NEW c \in Clients, DeleteRow(c) PROVE Rest'
  BY <1>12, RestDeleteRow
<1>13. ASSUME NEW c \in Clients, DeleteClose(c) PROVE Rest'
  <2>1. pc'[c] = "idle" /\ held'[c] = None /\ Others(c) /\ pc[c] = "deleteClose"
    BY <1>1, <1>13, FinishEffect DEF DeleteClose
  <2> QED BY <1>13, <2>1, RestCloses DEF DeleteClose, serverVars
<1>14. ASSUME NEW p \in Procs, PiExit(p) PROVE Rest'
  <2>1. /\ UNCHANGED <<up, counter, mu, handles, rows, started, sid, born, mine, pc, target, held>>
        /\ \A q \in mine : state'[q] = "running" => state[q] = "running"
    BY <1>14, TypeParts DEF PiExit, serverVars, clientVars, IInv, ProcType
  <2>2. NoLostProcess'
    BY <1>1, <2>1 DEF Rest, NoLostProcess
  <2> QED BY <1>1, <2>1, <2>2
          DEF Rest, StartedOnly, DownIsEmpty, HoldsProcess, Creating, Resuming, CounterAhead,
              HandleServesItsRow
<1>15. CASE Crash
  BY <1>0, <1>15, RestCrash
<1>16. CASE Boot
  BY <1>0, <1>16, RestBoot
<1>17. CASE UNCHANGED vars
  BY <1>0, <1>1, <1>17
     DEF vars, serverVars, procVars, clientVars, Rest, StartedOnly, DownIsEmpty, HoldsProcess,
         Creating, Resuming, CounterAhead, NoLostProcess, HandleServesItsRow
<1>18. ASSUME NEW c \in Clients, UseReturns(c) PROVE Rest'
  <2>1. UNCHANGED <<up, counter, mu, handles, rows, started, state, sid, born, mine>>
    BY <1>18 DEF UseReturns, serverVars, procVars
  <2>2. pc[c] = "answer" /\ Others(c) /\ pc'[c] = "idle" /\ held'[c] = None
    BY <1>1, <1>18, FinishEffect DEF UseReturns
  <2> QED BY <2>1, <2>2, RestMovesOn
<1>19. ASSUME NEW p \in Procs, PiWrites(p) PROVE Rest'
  BY <1>1, <1>19
     DEF PiWrites, serverVars, procVars, clientVars, Rest, StartedOnly, DownIsEmpty,
         HoldsProcess, Creating, Resuming, CounterAhead, NoLostProcess, HandleServesItsRow
<1> QED BY <1>0, <1>2, <1>3, <1>4, <1>5, <1>6, <1>7, <1>8, <1>9, <1>10, <1>11, <1>12, <1>13,
           <1>14, <1>15, <1>16, <1>17, <1>18, <1>19 DEF Next, ClientStep

\* The invariant holds throughout every run of the manager.
THEOREM Inductive == Spec => []IInv
BY InvInit, InvNext, PTL DEF Spec

\* The state keeps its types: a step never finds None where it needs a process.
THEOREM TypeCorrect == Spec => []TypeOK
<1>1. IInv => TypeOK
  BY DEF IInv
<1> QED BY Inductive, <1>1, PTL

\* The counter stays ahead of every stored and registered session, however
\* creates, deletes and restarts mix: no such id is given out.
THEOREM CounterStaysAhead == Spec => []CounterAhead
<1>1. IInv => CounterAhead
  BY DEF IInv
<1> QED BY Inductive, <1>1, PTL

\* Every running process of this server is registered or in the hands of the
\* request that will register or close it.
THEOREM NoProcessLost == Spec => []NoLostProcess
<1>1. IInv => NoLostProcess
  BY DEF IInv
<1> QED BY Inductive, <1>1, PTL

\* A registered process was started for the session stored under its id.
THEOREM HandlesServe == Spec => []HandleServesItsRow
<1>1. IInv => HandleServesItsRow
  BY DEF IInv
<1> QED BY Inductive, <1>1, PTL

---------------------------------------------------------------------------
(* Whose transcript a process is started on: this rests on how processes     *)
(* descend from the sessions they were started for.                          *)

\* A process descends from one started earlier, for the same id, with which its
\* session was created.
Descent ==
    \A p \in Procs : p =< started =>
        born[p] =< started /\ sid[born[p]] = sid[p] /\ born[born[p]] = born[p]

\* A stored row, and a row that Resume has read, names such a first process.
RowsNameFirst ==
    /\ \A i \in Ids : rows[i] # None => sid[rows[i]] = i /\ born[rows[i]] = rows[i]
    /\ \A c \in Clients : pc[c] = "resume" =>
          sid[held[c]] = target[c] /\ born[held[c]] = held[c]

\* What is written under an id, or was loaded from there, is of sessions of that id.
TranscriptsById ==
    /\ \A s \in Ids : \A d \in Dirs : \A q \in transcripts[s][d] : q =< started /\ sid[q] = s
    /\ \A p \in Procs : \A q \in loaded[p] : p =< started /\ q =< started /\ sid[q] = sid[p]

\* Until the insert only Create knows of the process it has started: it has no
\* descendant, no prompt, no transcript and no other client.
Fresh(c) ==
    LET q == held[c] IN
    /\ \A p \in Procs : p =< started /\ born[p] = q => p = q
    /\ \A s \in Ids : \A d \in Dirs : q \notin transcripts[s][d]
    /\ \A p \in Procs : q \notin loaded[p]
    /\ q \notin prompted
    /\ \A e \in Clients : e # c => held[e] # q
InsertsFresh == \A c \in Clients : pc[c] = "insert" => Fresh(c)

\* Only a started process has been sent a prompt.
PromptedStarted == \A p \in prompted : p =< started

Lineage ==
    /\ Descent /\ RowsNameFirst /\ TranscriptsById /\ InsertsFresh /\ PromptedStarted
    /\ NoForeignTranscript

\* An empty store and a Manager just made satisfy it.
LEMMA LineageInit == Init => Lineage
<1> SUFFICES ASSUME Init PROVE Lineage
  OBVIOUS
<1>1. \A p \in Procs : ~(p =< started)
  BY ManagerAssumption DEF Init, Procs
<1>2. \A s \in Ids : \A d \in Dirs : transcripts[s][d] = {}
  BY DEF Init
<1> QED BY <1>1, <1>2
        DEF Init, Lineage, Descent, RowsNameFirst, TranscriptsById, InsertsFresh,
            PromptedStarted, NoForeignTranscript

\* Nothing is started, written or stored, and a client that moves on comes to
\* hold another process only when no Create is under way: no descent changes.
LEMMA LineageStill ==
    ASSUME IInv, Lineage, NEW c \in Clients, Others(c),
           UNCHANGED <<transcripts, started, sid, born, loaded>>, prompted' \subseteq prompted,
           \A j \in Ids : rows'[j] \in {rows[j], None},
           pc'[c] \notin {"insert", "resume"},
           \/ held'[c] \in {held[c], None}
           \/ \A e \in Clients : pc[e] # "insert"
    PROVE Lineage'
<1>1. Descent' /\ TranscriptsById' /\ PromptedStarted'
  BY DEF Lineage, Descent, TranscriptsById, PromptedStarted
<1>2. RowsNameFirst'
  BY DEF Lineage, RowsNameFirst, Others
<1>3. InsertsFresh'
  <2> SUFFICES ASSUME NEW e \in Clients, pc'[e] = "insert" PROVE Fresh(e)'
    BY DEF InsertsFresh
  <2>1. e # c /\ pc[e] = "insert" /\ held'[e] = held[e]
    BY DEF Others
  <2>2. Fresh(e) /\ held'[c] \in {held[c], None} /\ held[e] # None
    BY <2>1 DEF Lineage, InsertsFresh, IInv, HoldsProcess
  <2> QED BY <2>1, <2>2 DEF Fresh, Others
<1>4. NoForeignTranscript'
  <2>1. \A p \in Procs : \A q \in loaded[p] : q # None
    BY TypeParts, NoneApart DEF IInv, ProcType
  <2> QED BY <2>1 DEF Lineage, NoForeignTranscript
<1> QED BY <1>1, <1>2, <1>3, <1>4 DEF Lineage

\* A started process loads the transcripts under its id. Their sessions are gone
\* from the store, but for the one it descends from.
LEMMA LineageStart ==
    ASSUME IInv, Lineage, NEW c \in Clients, NEW s \in Ids, NEW birth \in Procs, NEW d \in Dirs,
           Start(s, birth, d), Others(c), UNCHANGED <<rows, transcripts>>,
           \A e \in Clients : pc[e] # "insert",
           rows[s] \in {None, birth},
           \/ birth = started + 1
           \/ birth =< started /\ sid[birth] = s /\ born[birth] = birth,
           \/ pc'[c] = "idle"
           \/ birth = started + 1 /\ pc'[c] = "insert" /\ held'[c] = birth
    PROVE Lineage'
<1> DEFINE n == started + 1
           at == ResolveWorkingDir(d)
<1>1. ClientType /\ ServerType /\ ProcType
  BY TypeParts DEF IInv
<1>2. /\ started' = n /\ n \in Procs /\ sid'[n] = s /\ born'[n] = birth
      /\ \A p \in Procs : p # n => sid'[p] = sid[p] /\ born'[p] = born[p]
  BY <1>1, StartEffect
<1>3. at \in Dirs
  BY <1>1 DEF ServerType, ResolveWorkingDir
<1>4. loaded'[n] = transcripts[s][at] /\ \A p \in Procs : p # n => loaded'[p] = loaded[p]
  BY <1>1, <1>2 DEF Start, ProcType
<1>5. /\ \A p \in Procs : p =< started => p =< n /\ p # n
      /\ \A p \in Procs : p =< n => p =< started \/ p = n
      /\ n =< n
  BY <1>1, <1>2, NoneApart, ManagerAssumption DEF ProcType
<1>6. \A i \in Ids : rows[i] # None => rows[i] \in Procs /\ rows[i] =< started
  BY <1>1 DEF IInv, StartedOnly, ServerType
<1>7. \A e \in Clients : held[e] # None => held[e] \in Procs /\ held[e] =< started
  BY <1>1 DEF IInv, StartedOnly, ClientType
<1>8. \A t \in Ids : \A e \in Dirs : \A q \in transcripts[t][e] :
          q \in Procs /\ q =< started /\ sid[q] = t
  BY <1>1 DEF Lineage, TranscriptsById, ServerType
<1>9. \A p \in Procs : born[p] \in Procs /\ loaded[p] \subseteq Procs
  BY <1>1 DEF ProcType
<1> HIDE DEF n, at
<1>10. Descent'
  <2> SUFFICES ASSUME NEW p \in Procs, p =< n
               PROVE /\ born'[p] =< n /\ sid'[born'[p]] = sid'[p]
                     /\ born'[born'[p]] = born'[p]
    BY <1>2 DEF Descent
  <2>1. CASE p = n
    BY <1>2, <1>5, <2>1 DEF n
  <2>2. CASE p =< started
    BY <1>2, <1>5, <1>9, <2>2 DEF Lineage, Descent
  <2> QED BY <1>5, <2>1, <2>2
<1>11. RowsNameFirst'
  <2>1. \A i \in Ids : rows[i] # None => sid'[rows[i]] = i /\ born'[rows[i]] = rows[i]
    BY <1>2, <1>5, <1>6 DEF Lineage, RowsNameFirst
  <2>2. \A e \in Clients : pc'[e] = "resume" =>
            /\ e # c /\ pc[e] = "resume" /\ held'[e] = held[e] /\ target'[e] = target[e]
            /\ held[e] # None
    BY DEF Others, IInv, HoldsProcess
  <2>3. \A e \in Clients : pc'[e] = "resume" =>
            sid'[held'[e]] = target'[e] /\ born'[held'[e]] = held'[e]
    BY <1>2, <1>5, <1>7, <2>2 DEF Lineage, RowsNameFirst
  <2> QED BY <2>1, <2>3 DEF RowsNameFirst
<1>12. TranscriptsById'
  <2>1. \A t \in Ids : \A e \in Dirs : \A q \in transcripts[t][e] : q =< n /\ sid'[q] = t
    BY <1>2, <1>5, <1>8
  <2>2. \A p \in Procs : \A q \in loaded'[p] : p =< n /\ q =< n /\ sid'[q] = sid'[p]
    <3> SUFFICES ASSUME NEW p \in Procs, NEW q \in loaded'[p]
                 PROVE p =< n /\ q =< n /\ sid'[q] = sid'[p]
      OBVIOUS
    <3>1. CASE p = n
      BY <1>2, <1>3, <1>4, <1>5, <1>8, <3>1
    <3>2. CASE p # n
      <4>1. q \in Procs /\ p =< started /\ q =< started /\ sid[q] = sid[p]
        BY <1>4, <1>9, <3>2 DEF Lineage, TranscriptsById
      <4> QED BY <1>2, <1>5, <3>2, <4>1
    <3> QED BY <3>1, <3>2
  <2> QED BY <1>2, <2>1, <2>2 DEF TranscriptsById
<1>13. InsertsFresh'
  <2> SUFFICES ASSUME NEW e \in Clients, pc'[e] = "insert" PROVE Fresh(e)'
    BY DEF InsertsFresh
  <2>1. e = c /\ held'[e] = n /\ birth = n
    BY DEF n, Others
  <2>2. \A p \in Procs : p =< n /\ born'[p] = n => p = n
    BY <1>2, <1>5, <1>9 DEF Lineage, Descent
  <2>3. \A t \in Ids : \A f \in Dirs : n \notin transcripts[t][f]
    BY <1>5, <1>8
  <2>4. \A p \in Procs : n \notin loaded'[p]
    <3> SUFFICES ASSUME NEW p \in Procs PROVE n \notin loaded'[p]
      OBVIOUS
    <3>1. CASE p = n
      BY <1>3, <1>4, <2>3, <3>1
    <3>2. CASE p # n
      BY <1>2, <1>4, <1>5, <3>2 DEF Lineage, TranscriptsById
    <3> QED BY <3>1, <3>2
  <2>5. \A f \in Clients : f # c => held'[f] # n
    BY <1>2, <1>5, <1>7, NoneApart DEF Others
  <2>6. n \notin prompted'
    BY <1>2, <1>5 DEF Start, Lineage, PromptedStarted
  <2> QED BY <1>2, <2>1, <2>2, <2>3, <2>4, <2>5, <2>6 DEF Fresh
<1>14. NoForeignTranscript'
  <2> SUFFICES ASSUME NEW p \in Procs, NEW q \in loaded'[p], q # born'[p], NEW i \in Ids
               PROVE rows[i] # q
    BY DEF NoForeignTranscript
  <2>1. CASE p # n
    BY <1>2, <1>4, <2>1 DEF Lineage, NoForeignTranscript
  <2>2. CASE p = n
    <3>1. q \in Procs /\ sid[q] = s /\ q # birth
      BY <1>2, <1>3, <1>4, <1>8, <2>2
    <3>2. rows[i] # None => sid[rows[i]] = i /\ born[rows[i]] = rows[i]
      BY <1>2 DEF Lineage, RowsNameFirst
    <3>3. q # None
      BY <3>1, NoneApart
    <3>4. ASSUME rows[i] = q PROVE i = s
      BY <3>1, <3>2, <3>3, <3>4
    <3> QED BY <3>1, <3>3, <3>4
  <2> QED BY <2>1, <2>2
<1>15. PromptedStarted'
  <2>1. prompted' = prompted /\ prompted \subseteq Procs
    BY <1>1 DEF Start, ProcType
  <2>2. \A p \in prompted : p =< n
    BY <1>5, <2>1 DEF Lineage, PromptedStarted
  <2> QED BY <1>2, <2>1, <2>2 DEF PromptedStarted
<1> QED BY <1>10, <1>11, <1>12, <1>13, <1>14, <1>15 DEF Lineage

\* Create stores the process it has started, which nobody has loaded.
LEMMA LineageInserts ==
    ASSUME IInv, Lineage, NEW c \in Clients, CreateInsert(c),
           CreateSession(target[c], held[c]), Finish(c, "ok")
    PROVE Lineage'
<1> DEFINE i == target[c]
           q == held[c]
<1>1. ClientType /\ ServerType
  BY TypeParts DEF IInv
<1>2. pc'[c] = "idle" /\ Others(c) /\ pc[c] = "insert"
  BY <1>1, FinishEffect DEF CreateInsert
<1>3. UNCHANGED <<transcripts, started, sid, born, loaded, prompted>>
  BY DEF CreateInsert, procVars
<1>4. i \in Ids /\ sid[q] = i /\ born[q] = q /\ mu = c /\ Fresh(c)
  BY <1>1, <1>2 DEF ClientType, IInv, Creating, Lineage, InsertsFresh
<1>5. rows'[i] = q /\ \A j \in Ids : j # i => rows'[j] = rows[j]
  BY <1>1, <1>4 DEF CreateSession, ServerType
<1>6. \A e \in Clients : pc'[e] # "insert"
  BY <1>2, <1>4 DEF Others, IInv, Creating
<1> HIDE DEF i, q
<1>7. Descent' /\ TranscriptsById' /\ InsertsFresh' /\ PromptedStarted'
  BY <1>3, <1>6 DEF Lineage, Descent, TranscriptsById, InsertsFresh, PromptedStarted
<1>8. RowsNameFirst'
  BY <1>2, <1>3, <1>4, <1>5 DEF Lineage, RowsNameFirst, Others
<1>9. NoForeignTranscript'
  <2>1. \A p \in Procs : q \notin loaded[p]
    BY <1>4 DEF q, Fresh
  <2> QED BY <1>3, <1>5, <2>1 DEF Lineage, NoForeignTranscript
<1> QED BY <1>7, <1>8, <1>9 DEF Lineage

\* A prompt goes to a started process that no Create has in its hands.
LEMMA LineageUse ==
    ASSUME IInv, Lineage, NEW c \in Clients, Use(c)
    PROVE Lineage'
<1>1. ClientType
  BY TypeParts DEF IInv
<1>2. /\ pc[c] = "use" /\ Others(c) /\ pc'[c] \in {"idle", "answer"}
      /\ held'[c] \in {held[c], None}
  BY <1>1, StepEffect, FinishEffect DEF Use
<1>3. /\ UNCHANGED <<rows, transcripts, started, sid, born, loaded>>
      /\ prompted' \subseteq prompted \cup {held[c]}
  BY DEF Use
<1>4. held[c] =< started /\ held[c] # None
  BY <1>2 DEF IInv, HoldsProcess, StartedOnly
<1>5. Descent' /\ RowsNameFirst' /\ TranscriptsById' /\ NoForeignTranscript'
  BY <1>2, <1>3 DEF Lineage, Descent, RowsNameFirst, TranscriptsById, NoForeignTranscript, Others
<1>6. PromptedStarted'
  BY <1>3, <1>4 DEF Lineage, PromptedStarted
<1>7. InsertsFresh'
  <2> SUFFICES ASSUME NEW e \in Clients, pc'[e] = "insert" PROVE Fresh(e)'
    BY DEF InsertsFresh
  <2>1. e # c /\ pc[e] = "insert" /\ held'[e] = held[e]
    BY <1>2 DEF Others
  <2>2. Fresh(e) /\ held[e] # None /\ held[c] # held[e]
    BY <1>2, <2>1 DEF Lineage, InsertsFresh, Fresh, IInv, HoldsProcess
  <2>3. held[e] \notin prompted'
    BY <1>3, <2>2 DEF Fresh
  <2> QED BY <1>2, <1>3, <2>1, <2>2, <2>3 DEF Fresh, Others
<1> QED BY <1>5, <1>6, <1>7 DEF Lineage

\* A process writes the transcript of the session it descends from, under the id
\* they share.
LEMMA LineageWrites ==
    ASSUME IInv, Lineage, NEW p \in Procs, PiWrites(p)
    PROVE Lineage'
<1>1. ServerType /\ ProcType
  BY TypeParts DEF IInv
<1>2. UNCHANGED <<rows, started, sid, born, loaded, prompted, pc, target, held>>
  BY DEF PiWrites, procVars, clientVars
<1>3. p \in prompted /\ p =< started
  BY DEF PiWrites, Lineage, PromptedStarted
<1>4. born[p] \in Procs /\ born[p] =< started /\ sid[born[p]] = sid[p] /\ sid[p] \in Ids
      /\ dir[p] \in Dirs
  BY <1>1, <1>3 DEF ProcType, Lineage, Descent
<1>5. \A s \in Ids : \A d \in Dirs : \A q \in transcripts'[s][d] :
          q \in transcripts[s][d] \/ (q = born[p] /\ s = sid[p])
  BY <1>1, <1>4 DEF PiWrites, ServerType
<1>6. Descent' /\ RowsNameFirst' /\ NoForeignTranscript' /\ PromptedStarted'
  BY <1>2 DEF Lineage, Descent, RowsNameFirst, NoForeignTranscript, PromptedStarted
<1>7. TranscriptsById'
  BY <1>2, <1>4, <1>5 DEF Lineage, TranscriptsById
<1>8. InsertsFresh'
  <2> SUFFICES ASSUME NEW e \in Clients, pc[e] = "insert" PROVE Fresh(e)'
    BY <1>2 DEF InsertsFresh
  <2>1. Fresh(e)
    BY DEF Lineage, InsertsFresh
  <2>2. born[p] # held[e]
    BY <1>3, <2>1 DEF Fresh
  <2>3. \A s \in Ids : \A d \in Dirs : held[e] \notin transcripts'[s][d]
    BY <1>5, <2>1, <2>2 DEF Fresh
  <2> QED BY <1>2, <2>1, <2>3 DEF Fresh
<1> QED BY <1>6, <1>7, <1>8 DEF Lineage

\* Resume reads a row, which no Create has in its hands any more.
LEMMA LineageReads ==
    ASSUME IInv, Lineage, NEW c \in Clients, NEW i \in Ids, Stored(i),
           UNCHANGED <<rows, transcripts, started, sid, born, loaded, prompted>>,
           pc'[c] = "resume", target'[c] = i, held'[c] = rows[i], Others(c)
    PROVE Lineage'
<1>1. rows[i] # None /\ sid[rows[i]] = i /\ born[rows[i]] = rows[i]
  BY DEF Stored, Lineage, RowsNameFirst
<1>2. Descent' /\ TranscriptsById' /\ NoForeignTranscript' /\ PromptedStarted'
  BY DEF Lineage, Descent, TranscriptsById, NoForeignTranscript, PromptedStarted
<1>3. RowsNameFirst'
  BY <1>1 DEF Lineage, RowsNameFirst, Others
<1>4. InsertsFresh'
  <2> SUFFICES ASSUME NEW e \in Clients, pc'[e] = "insert" PROVE Fresh(e)'
    BY DEF InsertsFresh
  <2>1. e # c /\ pc[e] = "insert" /\ held'[e] = held[e]
    BY DEF Others
  <2>2. Fresh(e) /\ sid[held[e]] = target[e] /\ rows[target[e]] = None
    BY <2>1 DEF Lineage, InsertsFresh, IInv, Creating
  <2>3. rows[i] # held[e]
    BY <1>1, <2>2
  <2> QED BY <2>1, <2>2, <2>3 DEF Fresh, Others
<1> QED BY <1>2, <1>3, <1>4 DEF Lineage

\* Every step of every client, process and server keeps the lineage.
LEMMA LineageNext == IInv /\ Lineage /\ [Next]_vars => Lineage'
<1> SUFFICES ASSUME IInv, Lineage, [Next]_vars PROVE Lineage'
  OBVIOUS
<1>1. ClientType /\ ServerType /\ ProcType
  BY TypeParts DEF IInv
<1>2. ASSUME NEW c \in Clients, NEW d \in Dirs, CreateStart(c, d) PROVE Lineage'
  <2>1. UNCHANGED <<rows, transcripts>> /\ pc[c] = "idle"
        /\ \A e \in Clients : pc[e] # "insert"
    BY <1>2, FreeMutex DEF CreateStart, IInv, Called
  <2>2. CASE Finish(c, "error") /\ UNCHANGED <<procVars, mu>>
    BY <1>1, <2>1, <2>2, FinishEffect, LineageStill DEF procVars
  <2>3. CASE Start(NextId, started + 1, d) /\ Enter(c, "insert", NextId, started + 1, FALSE)
    <3>1. NextId \in Ids /\ rows[NextId] = None
      <4>1. /\ up /\ counter \in Nat /\ NextId = counter + 1 /\ NextId =< MaxId
        BY <1>1, <1>2, ManagerAssumption DEF CreateStart, Called, NextId, ServerType
      <4>2. NextId \in Ids /\ ~(NextId =< counter)
        BY <4>1, ManagerAssumption DEF Ids
      <4> QED BY <4>1, <4>2 DEF IInv, CounterAhead
    <3>2. started + 1 \in Procs
      BY <1>1, <2>3, ManagerAssumption DEF Start, ProcType, Procs
    <3>3. pc'[c] = "insert" /\ held'[c] = started + 1 /\ Others(c)
      BY <1>1, <2>3, EnterEffect
    <3> QED BY <2>1, <2>3, <3>1, <3>2, <3>3, LineageStart
  <2> QED BY <1>2, <2>2, <2>3 DEF CreateStart
<1>3. ASSUME NEW c \in Clients, CreateInsert(c) PROVE Lineage'
  <2>1. CASE Step(c, "undo") /\ UNCHANGED <<rows, handles, mu>>
    <3>1. pc'[c] = "undo" /\ held' = held /\ Others(c)
      BY <1>1, <2>1, StepEffect
    <3> QED BY <1>3, <2>1, <3>1, LineageStill DEF CreateInsert, procVars
  <2> QED BY <1>3, <2>1, LineageInserts DEF CreateInsert
<1>4. ASSUME NEW c \in Clients, CreateUndo(c) PROVE Lineage'
  <2>1. pc'[c] = "undone" /\ held' = held /\ Others(c)
    BY <1>1, <1>4, StepEffect DEF CreateUndo
  <2> QED BY <1>4, <2>1, LineageStill DEF CreateUndo
<1>5. ASSUME NEW c \in Clients, CreateUndone(c) PROVE Lineage'
  BY <1>1, <1>5, FinishEffect, LineageStill DEF CreateUndone, procVars
<1>6. ASSUME NEW c \in Clients, NEW i \in Ids, GetHandle(c, i) PROVE Lineage'
  <2>1. \A e \in Clients : pc[e] # "insert"
    BY <1>6, FreeMutex DEF GetHandle, IInv
  <2>2. Others(c) /\ pc'[c] \in {"idle", "getRow"}
    BY <1>1, <1>6, FinishEffect, EnterEffect DEF GetHandle
  <2> QED BY <1>6, <2>1, <2>2, LineageStill DEF GetHandle, procVars
<1>7. ASSUME NEW c \in Clients, GetRow(c) PROVE Lineage'
  <2>1. Others(c) /\ pc'[c] \in {"idle", "use"} /\ held'[c] \in {held[c], None}
    BY <1>1, <1>7, FinishEffect, StepEffect DEF GetRow
  <2> QED BY <1>7, <2>1, LineageStill DEF GetRow, procVars
<1>8. ASSUME NEW c \in Clients, Use(c) PROVE Lineage'
  BY <1>8, LineageUse
<1>9. ASSUME NEW c \in Clients, NEW i \in Ids, ResumeRead(c, i) PROVE Lineage'
  <2>1. UNCHANGED <<rows, transcripts, started, sid, born, loaded, prompted>>
    BY <1>9 DEF ResumeRead, procVars
  <2>2. CASE \E answer \in Replies : Finish(c, answer)
    BY <1>1, <2>1, <2>2, FinishEffect, LineageStill
  <2>3. CASE /\ Stored(i)
             /\ Enter(c, "resume", i, rows[i], handles[i] # None /\ state[handles[i]] = "exited")
    BY <1>1, <2>1, <2>3, EnterEffect, LineageReads
  <2> QED BY <1>9, <2>2, <2>3 DEF ResumeRead, Replies
<1>10. ASSUME NEW c \in Clients, ResumeLocked(c) PROVE Lineage'
  <2>1. UNCHANGED <<rows, transcripts>> /\ pc[c] = "resume"
        /\ \A e \in Clients : pc[e] # "insert"
    BY <1>10, FreeMutex DEF ResumeLocked, IInv
  <2>2. pc'[c] = "idle" /\ held'[c] = None /\ Others(c)
    BY <1>1, <1>10, FinishEffect DEF ResumeLocked
  <2>3. CASE UNCHANGED <<handles, procVars>>
    BY <2>1, <2>2, <2>3, LineageStill DEF procVars
  <2>4. CASE Start(target[c], held[c], RecordedDir(held[c]))
    <3>1. target[c] \in Ids /\ held[c] \in Procs /\ held[c] =< started
          /\ RecordedDir(held[c]) \in Dirs
      BY <1>1, <2>1 DEF ClientType, ProcType, IInv, HoldsProcess, StartedOnly, RecordedDir
    <3>2. rows[target[c]] \in {None, held[c]}
      BY <2>1 DEF IInv, Resuming
    <3>3. sid[held[c]] = target[c] /\ born[held[c]] = held[c]
      BY <2>1 DEF Lineage, RowsNameFirst
    <3> QED BY <2>1, <2>2, <2>4, <3>1, <3>2, <3>3, LineageStart
  <2> QED BY <1>10, <2>3, <2>4 DEF ResumeLocked
<1>11. ASSUME NEW c \in Clients, NEW i \in Ids, DeleteHandle(c, i) PROVE Lineage'
  <2>1. \A e \in Clients : pc[e] # "insert"
    BY <1>11, FreeMutex DEF DeleteHandle, IInv
  <2>2. Others(c) /\ pc'[c] = "deleteRow"
    BY <1>1, <1>11, EnterEffect DEF DeleteHandle
  <2> QED BY <1>11, <2>1, <2>2, LineageStill DEF DeleteHandle, procVars
<1>12. ASSUME NEW c \in Clients, DeleteRow(c) PROVE Lineage'
  <2>1. Others(c) /\ pc'[c] \in {"idle", "deleteClose"} /\ held'[c] \in {held[c], None}
    BY <1>1, <1>12, FinishEffect, StepEffect DEF DeleteRow
  <2>2. \A j \in Ids : rows'[j] \in {rows[j], None}
    BY <1>1, <1>12 DEF DeleteRow, DeleteSession, ServerType
  <2> QED BY <1>12, <2>1, <2>2, LineageStill DEF DeleteRow, procVars
<1>13. ASSUME NEW c \in Clients, DeleteClose(c) PROVE Lineage'
  <2>1. Others(c) /\ pc'[c] = "idle" /\ held'[c] = None
    BY <1>1, <1>13, FinishEffect DEF DeleteClose
  <2> QED BY <1>13, <2>1, LineageStill DEF DeleteClose
<1>14. ASSUME NEW p \in Procs, PiExit(p) PROVE Lineage'
  BY <1>14 DEF PiExit, clientVars, Lineage, Descent, RowsNameFirst, TranscriptsById,
               InsertsFresh, Fresh, PromptedStarted, NoForeignTranscript
<1>15. CASE Crash
  BY <1>15 DEF Crash, Lineage, Descent, RowsNameFirst, TranscriptsById, InsertsFresh,
               PromptedStarted, NoForeignTranscript
<1>16. CASE Boot
  BY <1>16 DEF Boot, procVars, clientVars, Lineage, Descent, RowsNameFirst, TranscriptsById,
               InsertsFresh, Fresh, PromptedStarted, NoForeignTranscript
<1>17. CASE UNCHANGED vars
  BY <1>17 DEF vars, serverVars, procVars, clientVars, Lineage, Descent, RowsNameFirst,
               TranscriptsById, InsertsFresh, Fresh, PromptedStarted, NoForeignTranscript
<1>18. ASSUME NEW c \in Clients, UseReturns(c) PROVE Lineage'
  BY <1>1, <1>18, FinishEffect, LineageStill DEF UseReturns, procVars
<1>19. ASSUME NEW p \in Procs, PiWrites(p) PROVE Lineage'
  BY <1>19, LineageWrites
<1> QED BY <1>2, <1>3, <1>4, <1>5, <1>6, <1>7, <1>8, <1>9, <1>10, <1>11, <1>12, <1>13,
           <1>14, <1>15, <1>16, <1>17, <1>18, <1>19 DEF Next, ClientStep

\* No Pi starts on what another stored session wrote, however ids come back after
\* deletes and restarts: Resume never finds its row replaced, and Create stores
\* nothing that has been written.
THEOREM TranscriptsKeptApart == Spec => []NoForeignTranscript
<1>1. Init => IInv /\ Lineage
  BY InvInit, LineageInit
<1>2. IInv /\ Lineage /\ [Next]_vars => (IInv /\ Lineage)'
  BY InvNext, LineageNext
<1>3. Lineage => NoForeignTranscript
  BY DEF Lineage
<1> QED BY <1>1, <1>2, <1>3, PTL DEF Spec

---------------------------------------------------------------------------
(* In which directory a process is started.                                  *)

\* What a step says of the directories of the processes it starts.
DirStep ==
    \A p \in Procs :
        state[p] = "unused" /\ state'[p] # "unused" /\ defaultDir \in {NoDir, dir'[born'[p]]}
            => dir'[p] = dir'[born'[p]]

\* A step that starts no process.
LEMMA DirStill ==
    ASSUME \A p \in Procs : state[p] = "unused" => state'[p] = "unused"
    PROVE DirStep
BY DEF DirStep

\* Closing a handle uses no process that was not used.
LEMMA StopUses ==
    ASSUME ProcType, NEW q, Stop(q)
    PROVE \A p \in Procs : state[p] = "unused" => state'[p] = "unused"
BY DEF ProcType, Stop

\* A process is started where the configuration says, or else in the directory
\* of its session; a new session is wherever its first process is.
LEMMA DirStart ==
    ASSUME IInv, NEW s \in Ids, NEW birth \in Procs, NEW d \in Dirs, Start(s, birth, d),
           birth = started + 1 \/ (birth =< started /\ d = RecordedDir(birth))
    PROVE DirStep
<1> DEFINE n == started + 1
<1>1. ServerType /\ ProcType
  BY TypeParts DEF IInv
<1>2. /\ n \in Procs /\ born'[n] = birth
      /\ \A p \in Procs : p # n => state'[p] = state[p]
  BY <1>1, StartEffect
<1>3. dir'[n] = ResolveWorkingDir(d) /\ \A p \in Procs : p # n => dir'[p] = dir[p]
  BY <1>1, <1>2 DEF Start, ProcType
<1>4. birth = n \/ (birth # n /\ d = dir[birth])
  BY <1>1, ManagerAssumption DEF ProcType, RecordedDir
<1> HIDE DEF n
<1>5. ASSUME defaultDir \in {NoDir, dir'[birth]} PROVE dir'[n] = dir'[birth]
  BY <1>3, <1>4, <1>5 DEF ResolveWorkingDir
<1> QED BY <1>2, <1>5 DEF DirStep

\* Every step of every client, process and server.
LEMMA DirNext == IInv /\ [Next]_vars => DirStep
<1> SUFFICES ASSUME IInv, [Next]_vars PROVE DirStep
  OBVIOUS
<1>1. ClientType /\ ServerType /\ ProcType
  BY TypeParts DEF IInv
<1>2. ASSUME NEW c \in Clients, NEW d \in Dirs, CreateStart(c, d) PROVE DirStep
  <2>1. CASE UNCHANGED procVars
    BY <2>1, DirStill DEF procVars
  <2>2. CASE Start(NextId, started + 1, d)
    <3>1. NextId \in Ids /\ started + 1 \in Procs
      BY <1>1, <1>2, <2>2, ManagerAssumption
         DEF CreateStart, NextId, Start, ServerType, ProcType, Ids, Procs
    <3> QED BY <2>2, <3>1, DirStart
  <2> QED BY <1>2, <2>1, <2>2 DEF CreateStart
<1>3. ASSUME NEW c \in Clients, ResumeLocked(c) PROVE DirStep
  <2>1. CASE UNCHANGED procVars
    BY <2>1, DirStill DEF procVars
  <2>2. CASE Start(target[c], held[c], RecordedDir(held[c]))
    <3>1. target[c] \in Ids /\ held[c] \in Procs /\ held[c] =< started
          /\ RecordedDir(held[c]) \in Dirs
      BY <1>1, <1>3 DEF ResumeLocked, ClientType, ProcType, IInv, HoldsProcess, StartedOnly,
                        RecordedDir
    <3> QED BY <2>2, <3>1, DirStart
  <2> QED BY <1>3, <2>1, <2>2 DEF ResumeLocked
<1>4. ASSUME NEW c \in Clients, CreateUndo(c) \/ DeleteClose(c) PROVE DirStep
  BY <1>1, <1>4, StopUses, DirStill DEF CreateUndo, CloseFailed, DeleteClose
<1>5. ASSUME NEW p \in Procs, PiExit(p) PROVE DirStep
  <2>1. \A q \in Procs : state[q] = "unused" => state'[q] = "unused"
    BY <1>1, <1>5 DEF PiExit, Live, ProcType
  <2> QED BY <2>1, DirStill
<1>6. ASSUME UNCHANGED state PROVE DirStep
  BY <1>6, DirStill
<1>7. ASSUME NEW c \in Clients,
             \/ CreateInsert(c) \/ CreateUndone(c) \/ GetRow(c) \/ Use(c) \/ UseReturns(c)
             \/ DeleteRow(c)
             \/ \E i \in Ids : GetHandle(c, i) \/ ResumeRead(c, i) \/ DeleteHandle(c, i)
      PROVE DirStep
  BY <1>6, <1>7 DEF CreateInsert, CreateUndone, GetRow, Use, UseReturns, DeleteRow, GetHandle,
                    ResumeRead, DeleteHandle, procVars
<1>8. ASSUME \/ \E p \in Procs : PiWrites(p)
             \/ Crash \/ Boot \/ UNCHANGED vars
      PROVE DirStep
  BY <1>6, <1>8 DEF PiWrites, Crash, Boot, vars, procVars
<1> QED BY <1>2, <1>3, <1>4, <1>5, <1>7, <1>8 DEF Next, ClientStep

\* A session is resumed where it was created by every server whose
\* ZOEA_WORKING_DIR is empty or names that directory, whatever the servers before
\* it named.
THEOREM DirKept == Spec => SessionDirKept
<1>1. IInv /\ [Next]_vars => DirStep
  BY DirNext
<1>2. IInv /\ [Next]_vars => [DirStep]_vars
  BY <1>1
<1>3. Spec => [][DirStep]_vars
  BY Inductive, <1>2, PTL DEF Spec
<1> QED BY <1>3 DEF SessionDirKept, DirStep
=============================================================================
