--------------------------- MODULE SessionManager ---------------------------
(* The session manager (src/internal/session/manager.go) between the HTTP    *)
(* handlers that call it, the sessions table that outlives the server, and   *)
(* the Pi processes it starts through RPCProcessManager.Start, each in a     *)
(* session-dir that outlives them all.                                       *)
(*                                                                           *)
(* A step is what happens between two points where another goroutine can     *)
(* intervene: m.mu is a variable only because Create keeps it over a store   *)
(* call and a Close; the other methods release it in the step that takes it. *)
(* A store call is atomic (one connection). A session id is its number. A    *)
(* Pi process is a number, in order of start; the process a session was      *)
(* created with also names the session, for an id may be given out twice.    *)
(* All sessions are one user's, whose name is part of the session-dir too.   *)
(* The last_active_at column is not modelled.                                *)
(*                                                                           *)
(* Definitions marked "Mutated form" are not part of the model: each is a    *)
(* plausible bug in the definition after it, which a property below catches. *)
EXTENDS Integers, FiniteSets

CONSTANTS
    Clients,      \* HTTP handler goroutines
    MaxId,        \* bound on session ids
    MaxProc,      \* bound on processes started
    MaxCrashes,   \* bound on ends of the server process
    WorkingDirs,  \* directories a client or ZOEA_WORKING_DIR may name
    NoDir,        \* the empty working dir
    None,         \* no process, no session, no client
    StoreMayFail  \* whether a store call may fail for reasons of its own

ASSUME ManagerAssumption ==
    /\ MaxId \in Nat \ {0} /\ MaxProc \in Nat \ {0} /\ MaxCrashes \in Nat
    /\ NoDir \notin WorkingDirs /\ None \notin Clients /\ None \notin Nat
    /\ StoreMayFail \in BOOLEAN

Ids == 1..MaxId
Procs == 1..MaxProc
Dirs == WorkingDirs \cup {NoDir}

VARIABLES
    up, defaultDir, counter, mu, handles,  \* the server process: config and Manager
    rows,                                  \* the sessions table
    transcripts,                           \* the session-dirs
    started, state, sid, born, dir, loaded, mine, prompted, \* Pi processes
    pc, target, held, wasDead, reply,      \* the clients
    crashes

serverVars == <<up, defaultDir, counter, mu, handles>>
procVars == <<started, state, sid, born, dir, loaded, mine, prompted>>
clientVars == <<pc, target, held, wasDead, reply>>
vars == <<serverVars, rows, transcripts, procVars, clientVars, crashes>>

Replies == {"none", "ready", "ok", "error"}   \* "error" stands for every failure

TypeOK ==
    /\ up \in BOOLEAN /\ defaultDir \in Dirs
    /\ counter \in 0..MaxId /\ mu \in Clients \cup {None}
    /\ handles \in [Ids -> Procs \cup {None}]
    /\ rows \in [Ids -> Procs \cup {None}]
    /\ transcripts \in [Ids -> [Dirs -> SUBSET Procs]]
    /\ started \in 0..MaxProc
    /\ state \in [Procs -> {"unused", "running", "stopping", "exited"}]
    /\ sid \in [Procs -> Ids] /\ born \in [Procs -> Procs] /\ dir \in [Procs -> Dirs]
    /\ loaded \in [Procs -> SUBSET Procs]
    /\ mine \subseteq Procs /\ prompted \subseteq Procs
    /\ pc \in [Clients -> {"idle", "insert", "undo", "undone", "getRow", "use", "answer",
                           "resume", "deleteRow", "deleteClose"}]
    /\ target \in [Clients -> Ids] /\ held \in [Clients -> Procs \cup {None}]
    /\ wasDead \in [Clients -> BOOLEAN] /\ reply \in [Clients -> Replies]
    /\ crashes \in 0..MaxCrashes

Init ==
    /\ up = TRUE /\ defaultDir \in Dirs
    /\ counter = 0 /\ mu = None /\ handles = [i \in Ids |-> None]
    /\ rows = [i \in Ids |-> None]
    /\ transcripts = [i \in Ids |-> [d \in Dirs |-> {}]]
    /\ started = 0
    /\ state = [p \in Procs |-> "unused"]
    /\ sid = [p \in Procs |-> 1] /\ born = [p \in Procs |-> 1]
    /\ dir = [p \in Procs |-> NoDir]
    /\ loaded = [p \in Procs |-> {}]
    /\ mine = {} /\ prompted = {}
    /\ pc = [c \in Clients |-> "idle"] /\ target = [c \in Clients |-> 1]
    /\ held = [c \in Clients |-> None]
    /\ wasDead = [c \in Clients |-> FALSE] /\ reply = [c \in Clients |-> "none"]
    /\ crashes = 0

---------------------------------------------------------------------------
Live(p) == state[p] \in {"running", "stopping"}

\* ZOEA_WORKING_DIR wins over the directory asked for or recorded.
ResolveWorkingDir(d) == IF defaultDir = NoDir THEN d ELSE defaultDir

\* The next process runs for session id s of the given birth. It loads (with
\* --continue) whatever transcript its session-dir holds.
Start(s, birth, d) ==
    LET p == started + 1 IN
    /\ started < MaxProc
    /\ started' = p
    /\ state' = [state EXCEPT ![p] = "running"]
    /\ sid' = [sid EXCEPT ![p] = s]
    /\ born' = [born EXCEPT ![p] = birth]
    /\ dir' = [dir EXCEPT ![p] = ResolveWorkingDir(d)]
    /\ loaded' = [loaded EXCEPT ![p] = transcripts[s][ResolveWorkingDir(d)]]
    /\ mine' = mine \cup {p}
    /\ UNCHANGED prompted

\* Close: interrupt, then kill. AgentHandle shows that the process then ends.
Stop(p) ==
    state' = IF state[p] = "running" THEN [state EXCEPT ![p] = "stopping"] ELSE state

\* The statements of the store. An insert fails when the id is taken; a delete
\* of no row and a read of no row say so.
Stored(i) == rows[i] # None
CreateSession(i, p) == ~Stored(i) /\ rows' = [rows EXCEPT ![i] = p]
DeleteSession(i) == rows' = [rows EXCEPT ![i] = None]

\* A call takes its next step, is entered with what it found under its first
\* lock or read, or returns. What it knew is forgotten, its answer is not.
Step(c, label) ==
    /\ pc' = [pc EXCEPT ![c] = label]
    /\ UNCHANGED <<target, held, wasDead, reply>>
Enter(c, label, i, p, dead) ==
    /\ pc' = [pc EXCEPT ![c] = label]
    /\ target' = [target EXCEPT ![c] = i]
    /\ held' = [held EXCEPT ![c] = p]
    /\ wasDead' = [wasDead EXCEPT ![c] = dead]
    /\ reply' = [reply EXCEPT ![c] = "none"]
Finish(c, answer) ==
    /\ pc' = [pc EXCEPT ![c] = "idle"]
    /\ target' = [target EXCEPT ![c] = 1]
    /\ held' = [held EXCEPT ![c] = None]
    /\ wasDead' = [wasDead EXCEPT ![c] = FALSE]
    /\ reply' = [reply EXCEPT ![c] = answer]
Called(c) == up /\ pc[c] = "idle"

---------------------------------------------------------------------------
(* Create.                                                                   *)

\* Mutated form of NextId: the lowest id that is not stored is given out again.
LowestFreeId == CHOOSE i \in 1..MaxId + 1 :
    /\ i = MaxId + 1 \/ rows[i] = None
    /\ \A j \in 1..i - 1 : rows[j] # None
NextId == counter + 1

\* Lock, take the next id, resolve the directory, start Pi. A failure of the
\* last two returns with the counter already moved on.
CreateStart(c, d) ==
    /\ Called(c) /\ mu = None /\ NextId =< MaxId
    /\ counter' = NextId
    /\ \/ /\ Finish(c, "error")
          /\ UNCHANGED <<procVars, mu>>
       \/ /\ Start(NextId, started + 1, d)
          /\ mu' = c
          /\ Enter(c, "insert", NextId, started + 1, FALSE)
    /\ UNCHANGED <<up, defaultDir, handles, rows, transcripts, crashes>>

Unlock == mu' = None

\* CreateSession and, if it went in, registration and unlock. It fails when the
\* id is taken, when the external id is, or when the store does.
CreateInsert(c) ==
    LET i == target[c] p == held[c] IN
    /\ pc[c] = "insert"
    /\ \/ /\ CreateSession(i, p)
          /\ handles' = [handles EXCEPT ![i] = p]
          /\ Unlock
          /\ Finish(c, "ok")
       \/ Step(c, "undo") /\ UNCHANGED <<rows, handles, mu>>
    /\ UNCHANGED <<up, defaultDir, counter, transcripts, procVars, crashes>>

\* Mutated form of CloseFailed: the Pi of a failed Create is left running.
LeaveRunning(p) == UNCHANGED state
CloseFailed(p) == Stop(p)

CreateUndo(c) ==
    /\ pc[c] = "undo"
    /\ CloseFailed(held[c])
    /\ Step(c, "undone")
    /\ UNCHANGED <<serverVars, rows, transcripts, started, sid, born, dir, loaded, mine, prompted,
                   crashes>>

CreateUndone(c) ==
    /\ pc[c] = "undone"
    /\ Unlock
    /\ Finish(c, "error")
    /\ UNCHANGED <<up, defaultDir, counter, handles, rows, transcripts, procVars, crashes>>

---------------------------------------------------------------------------
(* Get, and the use of the session it returns (here Prompt).                 *)

GetHandle(c, i) ==
    /\ Called(c) /\ mu = None
    /\ IF handles[i] = None THEN Finish(c, "error")
                            ELSE Enter(c, "getRow", i, handles[i], FALSE)
    /\ UNCHANGED <<serverVars, rows, transcripts, procVars, crashes>>

GetRow(c) ==
    /\ pc[c] = "getRow"
    /\ \/ Stored(target[c]) /\ Step(c, "use")
       \/ ~Stored(target[c]) /\ Finish(c, "error")
       \/ StoreMayFail /\ Finish(c, "error")
    /\ UNCHANGED <<serverVars, rows, transcripts, procVars, crashes>>

\* Prompt writes to the pipe of Pi, which a closed handle or a Pi that has
\* exited refuses. While Pi runs and does not read, the write waits.
Use(c) ==
    /\ pc[c] = "use"
    /\ \/ /\ Live(held[c])
          /\ prompted' = prompted \cup {held[c]}
          /\ Step(c, "answer")
       \/ /\ state[held[c]] # "running"
          /\ Finish(c, "error")
          /\ UNCHANGED prompted
    /\ UNCHANGED <<serverVars, rows, transcripts, started, state, sid, born, dir, loaded, mine,
                   crashes>>

\* Then it waits, without a timeout, for Pi's answer, the end of the request's
\* context or the exit of Pi; CommandCalls says what it may then return.
UseReturns(c) ==
    /\ pc[c] = "answer"
    /\ \E answer \in {"ok", "error"} : Finish(c, answer)
    /\ UNCHANGED <<serverVars, rows, transcripts, procVars, crashes>>

---------------------------------------------------------------------------
(* Resume.                                                                   *)

\* The record is read before m.mu is taken.
ResumeRead(c, i) ==
    /\ Called(c)
    /\ \/ /\ Stored(i)
          /\ Enter(c, "resume", i, rows[i], handles[i] # None /\ state[handles[i]] = "exited")
       \/ ~Stored(i) /\ Finish(c, "error")
       \/ StoreMayFail /\ Finish(c, "error")
    /\ UNCHANGED <<serverVars, rows, transcripts, procVars, crashes>>

\* Mutated form of Attached: a live handle is not looked for.
NeverAttached(i) == FALSE
Attached(i) == handles[i] # None

\* Mutated form of RecordedDir: the working dir is not read back.
NotRecorded(birth) == NoDir

\* The working_dir of a row is the one the session was created in.
RecordedDir(birth) == dir[birth]

\* The row read is held[c], the birth of the session.
ResumeLocked(c) ==
    LET i == target[c] IN
    /\ pc[c] = "resume" /\ mu = None
    /\ \/ /\ Attached(i)
          /\ Finish(c, "ready")
          /\ UNCHANGED <<handles, procVars>>
       \/ /\ ~Attached(i)
          /\ Start(i, held[c], RecordedDir(held[c]))
          /\ handles' = [handles EXCEPT ![i] = started + 1]
          /\ Finish(c, "ready")
       \/ /\ ~Attached(i)
          /\ Finish(c, "error")
          /\ UNCHANGED <<handles, procVars>>
    /\ UNCHANGED <<up, defaultDir, counter, mu, rows, transcripts, crashes>>

---------------------------------------------------------------------------
(* Delete.                                                                   *)

DeleteHandle(c, i) ==
    /\ Called(c) /\ mu = None
    /\ handles' = [handles EXCEPT ![i] = None]
    /\ Enter(c, "deleteRow", i, handles[i], FALSE)
    /\ UNCHANGED <<up, defaultDir, counter, mu, rows, transcripts, procVars, crashes>>

\* An error of the store is reported only when there was no handle.
DeleteRow(c) ==
    LET i == target[c] IN
    /\ pc[c] = "deleteRow"
    /\ \E failed \in {FALSE, StoreMayFail} :
         /\ IF failed THEN UNCHANGED rows ELSE DeleteSession(i)
         /\ IF held[c] # None
            THEN Step(c, "deleteClose")
            ELSE Finish(c, IF failed \/ ~Stored(i) THEN "error" ELSE "ok")
    /\ UNCHANGED <<serverVars, transcripts, procVars, crashes>>

DeleteClose(c) ==
    /\ pc[c] = "deleteClose"
    /\ Stop(held[c])
    /\ \E answer \in {"ok", "error"} : Finish(c, answer)
    /\ UNCHANGED <<serverVars, rows, transcripts, started, sid, born, dir, loaded, mine, prompted,
                   crashes>>

---------------------------------------------------------------------------
(* The environment.                                                          *)

PiExit(p) ==
    /\ Live(p)
    /\ state' = [state EXCEPT ![p] = "exited"]
    /\ prompted' = prompted \ {p}
    /\ UNCHANGED <<serverVars, rows, transcripts, started, sid, born, dir, loaded, mine,
                   clientVars, crashes>>

\* A Pi that has been sent a prompt writes it to the transcript in its
\* session-dir, whether its caller still waits, or the server still runs, or not.
PiWrites(p) ==
    /\ Live(p) /\ p \in prompted
    /\ transcripts' = [transcripts EXCEPT ![sid[p]][dir[p]] = @ \cup {born[p]}]
    /\ UNCHANGED <<serverVars, rows, procVars, clientVars, crashes>>

\* The server process ends, in a crash or a shutdown: main does not close the
\* handles, so the Pi processes live on until they notice.
Crash ==
    /\ up /\ crashes < MaxCrashes
    /\ crashes' = crashes + 1
    /\ up' = FALSE /\ mu' = None /\ counter' = 0
    /\ handles' = [i \in Ids |-> None]
    /\ mine' = {}
    /\ pc' = [c \in Clients |-> "idle"] /\ target' = [c \in Clients |-> 1]
    /\ held' = [c \in Clients |-> None] /\ wasDead' = [c \in Clients |-> FALSE]
    /\ reply' = [c \in Clients |-> "none"]
    /\ UNCHANGED <<defaultDir, rows, transcripts, started, state, sid, born, dir, loaded, prompted>>

\* Mutated forms of MaxSessionID: the number of sessions stored; the id after
\* the last; no seed at all.
CountSessions == Cardinality({i \in Ids : rows[i] # None})
AfterLastSession == CHOOSE n \in 1..MaxId + 1 :
    /\ n = 1 \/ rows[n - 1] # None
    /\ \A i \in n..MaxId : rows[i] = None
NoSeed == 0
MaxSessionID == CHOOSE n \in 0..MaxId :
    /\ n = 0 \/ rows[n] # None
    /\ \A i \in Ids : rows[i] # None => i =< n

\* Boot: the configuration may have changed; Manager.Init seeds the counter.
Boot ==
    /\ ~up
    /\ up' = TRUE
    /\ defaultDir' \in Dirs
    /\ counter' = MaxSessionID
    /\ UNCHANGED <<mu, handles, rows, transcripts, procVars, clientVars, crashes>>

---------------------------------------------------------------------------
ClientStep(c) ==
    \/ \E d \in Dirs : CreateStart(c, d)
    \/ CreateInsert(c) \/ CreateUndo(c) \/ CreateUndone(c)
    \/ \E i \in Ids : GetHandle(c, i) \/ ResumeRead(c, i) \/ DeleteHandle(c, i)
    \/ GetRow(c) \/ Use(c) \/ UseReturns(c) \/ ResumeLocked(c) \/ DeleteRow(c) \/ DeleteClose(c)

Next ==
    \/ \E c \in Clients : ClientStep(c)
    \/ \E p \in Procs : PiExit(p) \/ PiWrites(p)
    \/ Crash
    \/ Boot

Spec == Init /\ [][Next]_vars

Released(c) == held[c] # None /\ state[held[c]] = "exited"

\* A request once begun runs on; a mutex that keeps coming free is obtained in
\* the end; a process that was interrupted and then killed ends. Nothing makes Pi
\* read or answer a prompt or a context end; the exit of Pi releases the call
\* (ExitReleasesCalls of AgentHandle).
Fairness ==
    /\ \A c \in Clients :
         /\ WF_vars(CreateInsert(c)) /\ WF_vars(CreateUndo(c)) /\ WF_vars(CreateUndone(c))
         /\ WF_vars(GetRow(c))
         /\ WF_vars(Released(c) /\ (Use(c) \/ UseReturns(c)))
         /\ WF_vars(DeleteRow(c)) /\ WF_vars(DeleteClose(c))
         /\ SF_vars(ResumeLocked(c))
    /\ \A p \in Procs : WF_vars(state[p] = "stopping" /\ PiExit(p))

FairSpec == Spec /\ Fairness

---------------------------------------------------------------------------
(* Properties.                                                               *)

\* Every Pi that runs for this server is registered, or in the hands of the
\* Create or Delete that will register or close it: none is lost track of.
NoLostProcess ==
    \A p \in mine : state[p] = "running" =>
        \/ handles[sid[p]] = p
        \/ \E c \in Clients : held[c] = p /\ pc[c] \in {"insert", "undo", "deleteRow", "deleteClose"}

\* The counter is ahead of every stored and every live session, so Create never
\* gives out the id of one, whatever was deleted, failed or restarted before.
CounterAhead ==
    up => \A i \in Ids : rows[i] # None \/ handles[i] # None => i =< counter

\* A registered process was started for the very session that is stored under
\* its id, not for an earlier holder of that id.
HandleServesItsRow ==
    \A i \in Ids : handles[i] # None /\ rows[i] # None => born[handles[i]] = rows[i]

\* No Pi starts on the transcript of another session that is still stored.
NoForeignTranscript ==
    \A p \in Procs : \A q \in loaded[p] \ {born[p]} : \A i \in Ids : rows[i] # q

\* A Pi that no session holds any more (a failed Create, a Delete) ends, unless
\* the server does first.
AbandonedPiEnds ==
    \A p \in Procs : state[p] = "running" /\ p \in mine /\ handles[sid[p]] # p
        ~> state[p] = "exited" \/ p \notin mine \/ handles[sid[p]] = p

\* Every request to the manager returns, or comes to wait for a Pi that runs and
\* has not been told to stop: m.mu is released on every path, and the exit of Pi
\* or a Delete of the session releases those that wait (Prompt has no timeout).
WaitsForPi(c) == pc[c] \in {"use", "answer"} /\ state[held[c]] = "running"

\* A session is resumed in the directory, and with it the session-dir and its
\* transcript, that it was created in by every server whose ZOEA_WORKING_DIR is
\* empty or names that directory, whatever other servers ran in between. A server
\* that names another one moves the session (ResolveWorkingDir), though resume is
\* documented to go back to the original session-dir (docs/endpoints.md:239).
SessionDirKept ==
    [][\A p \in Procs :
          state[p] = "unused" /\ state'[p] # "unused" /\ defaultDir \in {NoDir, dir'[born'[p]]}
              => dir'[p] = dir'[born'[p]]]_vars

\* What resume says of a session without a live Pi: ready means it has one.
ResumeGivesLivePi ==
    [][\A c \in Clients :
          pc[c] = "resume" /\ pc'[c] = "idle" /\ reply'[c] = "ready" => ~wasDead[c]]_vars

\* What Start says: the transcript in a session-dir is this session's own.
OwnTranscript == \A p \in Procs : loaded[p] \subseteq {born[p]}
=============================================================================
