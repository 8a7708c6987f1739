----------------------------- MODULE HelperPipe -----------------------------
(***************************************************************************)
(* The helper's named pipe: the service that makes instances of it and     *)
(* hands each connected one to a thread (serve_pipe), the clients that     *)
(* open it (connect_to) for a session of reads, a probe or an update, and  *)
(* the service manager that starts the service again when it has ended.    *)
(*                                                                         *)
(* The service is installed throughout.  Its processes are numbered, 0     *)
(* being none; another program may own the pipe's name while no process of *)
(* the service does.  A process has a pid while it runs, which another may *)
(* get once it has ended: the service manager has a handle to its service, *)
(* so no pid is given away before it knows that the process is gone.       *)
(***************************************************************************)
EXTENDS Integers, FiniteSets

CONSTANTS
    Clients,
    Pids,      \* bound: the pids that processes get
    MaxStarts, \* bound: the service is started at most this often
    MaxBuild,  \* bound: builds are numbered 1..MaxBuild
    Nil,       \* no instance, no result yet
    Free,      \* an instance that waits for a client
    Left,      \* an instance whose client has left it again
    Broken,    \* an instance that ConnectNamedPipe failed on
    Other,     \* the server of a pipe that is not the service
    Gone       \* the other end of a pipe after that server has closed it

ASSUME BoundsAreNat == MaxStarts \in Nat /\ MaxBuild \in Nat \ {0}
ASSUME ClientsAreNoMarkers ==
    /\ Clients \cap {Nil, Free, Left, Broken} = {}
    /\ Nil \notin {Free, Left, Broken}
ASSUME PidsArePositive == Pids \subseteq Nat \ {0}
ASSUME OtherIsNoNumber == Other \notin Nat /\ Other # Gone

VARIABLES
    installed, \* the build on disk
    born,      \* the number of the newest process of the service
    pid,       \* the pid it has, or had
    spc,       \* where its listening thread is, "off" if it has ended
    build,     \* the build it runs
    next, cur, \* serve_pipe's `next` and `pipe`
    sessions,  \* the clients its threads serve
    other,     \* the pid of another program that owns the name, 0 if none does
    st,        \* where each client is
    conn,      \* the process at the other end of its pipe
    server,    \* the pid the pipe has for its server
    want,      \* update(): the version it waits for, 0 before that
    result     \* how its command ended

service == <<installed, born, pid, spc, build, next, cur, sessions>>
clients == <<st, conn, server, want, result>>
pipeVars == <<service, other, clients>>

Listening == {"wait", "next", "hand"}
Reported == Listening \cup {"first"}

\* A mutation: the state is not looked at.
last_pid == pid

\* service_pid(): the process's, once it has reported SERVICE_RUNNING.
service_pid == IF spc \in Reported THEN pid ELSE 0
NameExists == other # 0 \/ next # Nil \/ cur # Nil \/ sessions # {}
Linked(c) == conn[c] = born /\ spc # "off"

PipeInit ==
    /\ installed = 1
    /\ born = 0
    /\ pid = 0
    /\ spc = "off"
    /\ build = 1
    /\ next = Nil
    /\ cur = Nil
    /\ sessions = {}
    /\ other = 0
    /\ st = [c \in Clients |-> "idle"]
    /\ conn = [c \in Clients |-> 0]
    /\ server = [c \in Clients |-> 0]
    /\ want = [c \in Clients |-> 0]
    /\ result = [c \in Clients |-> Nil]

-----------------------------------------------------------------------------
(* The service *)

\* The service manager starts it: at boot, on demand, 2 to 60 s after it ended.
StartService ==
    /\ spc = "off"
    /\ born < MaxStarts
    /\ born' = born + 1
    /\ pid' \in Pids \ {other}
    /\ build' = installed
    /\ spc' = "start"
    /\ UNCHANGED <<installed, next, cur, sessions, other, clients>>

\* service_main reports SERVICE_RUNNING before there is a pipe.
ReportRunning ==
    /\ spc = "start"
    /\ spc' = "first"
    /\ UNCHANGED <<installed, born, pid, build, next, cur, sessions, other, clients>>

\* The process ends and everything it holds is closed: STOP, a crash, a restart
\* onto an update, an error of listen.
End ==
    /\ spc' = "off"
    /\ next' = Nil
    /\ cur' = Nil
    /\ sessions' = {}
    /\ UNCHANGED <<installed, born, pid, build, other, clients>>

ProcessEnds == spc # "off" /\ End

NameIsTaken == NameExists

\* FILE_FLAG_FIRST_PIPE_INSTANCE: it fails if the name exists.
CreateFirst ==
    /\ spc = "first"
    /\ ~NameIsTaken
    /\ next' = Free
    /\ spc' = "wait"
    /\ UNCHANGED <<installed, born, pid, build, cur, sessions, other, clients>>

CreateFails ==
    /\ \/ spc = "first"  \* the name exists, or any other error
       \/ spc = "next"
    /\ End

Connected(instance) ==
    /\ spc = "wait"
    /\ cur' = instance
    /\ next' = Nil
    /\ spc' = "next"
    /\ UNCHANGED <<installed, born, pid, build, sessions, other, clients>>

\* ConnectNamedPipe returns: a client is there, or was and left (ERROR_NO_DATA).
Connect == next # Free /\ Connected(next)
ConnectFails == Connected(Broken)

\* The next instance exists before this one can close.
CreateNext ==
    /\ spc = "next"
    /\ next' = Free
    /\ spc' = "hand"
    /\ UNCHANGED <<installed, born, pid, build, cur, sessions, other, clients>>

\* A mutation: an instance that was left ends the round without a new one.
KeptAfterLeft == IF cur = Left THEN Nil ELSE next
KeptAfter == next

NoSession == sessions \* A mutation: the connected client is given no thread.
WithSession == IF cur \in Clients THEN sessions \cup {cur} ELSE sessions

\* A thread serves the client; an instance that was left is dropped.
HandOver ==
    /\ spc = "hand"
    /\ cur # Broken
    /\ sessions' = WithSession
    /\ next' = KeptAfter
    /\ cur' = Nil
    /\ spc' = "wait"
    /\ UNCHANGED <<installed, born, pid, build, other, clients>>

HandOverFails ==
    /\ spc = "hand"
    /\ cur = Broken
    /\ End

OtherTakesName ==
    /\ ~NameExists
    /\ other' \in Pids \ (IF spc = "off" THEN {} ELSE {pid})
    /\ UNCHANGED <<service, clients>>

\* Its end of every pipe it serves is closed, as when it ends.
OtherGivesUp ==
    /\ other # 0
    /\ other' = 0
    /\ conn' = [c \in Clients |-> IF conn[c] = Other THEN Gone ELSE conn[c]]
    /\ UNCHANGED <<service, st, server, want, result>>

-----------------------------------------------------------------------------
(* The clients *)

\* The client's end of its pipe is closed.
Disconnect(c) ==
    /\ next' = IF next = c THEN Left ELSE next
    /\ cur' = IF cur = c THEN Left ELSE cur
    /\ sessions' = sessions \ {c}
    /\ conn' = [conn EXCEPT ![c] = 0]
    /\ server' = [server EXCEPT ![c] = 0]
    /\ UNCHANGED <<installed, born, pid, spc, build, other>>

\* A command ends; but while update() waits, a probe that failed is repeated.
Finish(c, r) ==
    IF want[c] = 0
    THEN /\ st' = [st EXCEPT ![c] = "done"]
         /\ result' = [result EXCEPT ![c] = r]
         /\ UNCHANGED want
    ELSE /\ st' = [st EXCEPT ![c] = "open"]
         /\ UNCHANGED <<result, want>>

\* Remote::open, probe and update() begin with connect_to.
Begin(c) ==
    /\ st[c] = "idle"
    /\ st' = [st EXCEPT ![c] = "open"]
    /\ UNCHANGED <<service, other, conn, server, want, result>>

FindNoPipe(c) ==
    /\ st[c] = "open"
    /\ ~NameExists
    /\ Finish(c, "none")
    /\ UNCHANGED <<service, other, conn, server>>

OpenPipe(c) ==
    /\ st[c] = "open"
    /\ st' = [st EXCEPT ![c] = "verify"]
    /\ \/ /\ next = Free
          /\ next' = c
          /\ conn' = [conn EXCEPT ![c] = born]
          /\ server' = [server EXCEPT ![c] = pid]
       \/ /\ other # 0
          /\ conn' = [conn EXCEPT ![c] = Other]
          /\ server' = [server EXCEPT ![c] = other]
          /\ UNCHANGED next
    /\ UNCHANGED <<installed, born, pid, spc, build, cur, sessions, other, want, result>>

\* Every instance is taken, for 5 s: until then it tries again.
PipeBusy(c) ==
    /\ st[c] = "open"
    /\ NameExists
    /\ next # Free
    /\ other = 0
    /\ Finish(c, "busy")
    /\ UNCHANGED <<service, other, conn, server>>

\* GetNamedPipeServerProcessId is the pid its server had when it made the pipe,
\* whatever has become of it; service_pid() is asked for now, and its own errors
\* count as "not running", as an error of the other call does.
Verify(c) ==
    /\ st[c] = "verify"
    /\ \E p \in {service_pid, 0} :
        IF p # 0 /\ p = server[c]
        THEN /\ st' = [st EXCEPT ![c] = "ok"]
             /\ UNCHANGED <<service, other, conn, server, want, result>>
        ELSE Finish(c, "refused") /\ Disconnect(c)

\* Session::start: the service's thread answers with its version.  A probe,
\* and update()'s wait, end here; Remote::open goes on to its reads.
Handshake(c) ==
    /\ st[c] = "ok"
    /\ c \in sessions
    /\ \/ /\ want[c] = 0
          /\ st' = [st EXCEPT ![c] = "using"]
          /\ UNCHANGED <<service, other, conn, server, want, result>>
       \/ /\ want[c] # 0
          /\ Disconnect(c)
          /\ st' = [st EXCEPT ![c] = IF build = want[c] THEN "done" ELSE "open"]
          /\ result' = [result EXCEPT ![c] = IF build = want[c] THEN "back" ELSE @]
          /\ UNCHANGED want

\* The process at the other end is gone.
LoseService(c) ==
    /\ st[c] \in {"ok", "using"}
    /\ conn[c] # Other
    /\ ~Linked(c)
    /\ Finish(c, "lost")
    /\ Disconnect(c)

\* An UPDATE that installs a build ends the session; update() then waits for
\* the service to come back on it.
ClientUpdates(c) ==
    /\ st[c] = "using"
    /\ Linked(c)
    /\ installed < MaxBuild
    /\ installed' = installed + 1
    /\ want' = [want EXCEPT ![c] = installed']
    /\ st' = [st EXCEPT ![c] = "open"]
    /\ sessions' = sessions \ {c}
    /\ conn' = [conn EXCEPT ![c] = 0]
    /\ server' = [server EXCEPT ![c] = 0]
    /\ UNCHANGED <<born, pid, spc, build, next, cur, other, result>>

\* RESTART_WAIT has passed, between two probes.
GiveUp(c) ==
    /\ st[c] = "open"
    /\ want[c] # 0
    /\ st' = [st EXCEPT ![c] = "done"]
    /\ result' = [result EXCEPT ![c] = "waiting"]
    /\ UNCHANGED <<service, other, conn, server, want>>

\* The reads are done, or the client's process ends, wherever it is.
Leave(c) ==
    /\ st[c] \in {"open", "verify", "ok", "using"}
    /\ st' = [st EXCEPT ![c] = "done"]
    /\ Disconnect(c)
    /\ UNCHANGED <<want, result>>

Again(c) ==
    /\ st[c] = "done"
    /\ st' = [st EXCEPT ![c] = "idle"]
    /\ want' = [want EXCEPT ![c] = 0]
    /\ result' = [result EXCEPT ![c] = Nil]
    /\ UNCHANGED <<service, other, conn, server>>

-----------------------------------------------------------------------------
Serve == ReportRunning \/ CreateFirst \/ CreateFails \/ Connect \/ CreateNext
         \/ HandOver \/ HandOverFails

ClientStep(c) ==
    \/ Begin(c) \/ FindNoPipe(c) \/ OpenPipe(c) \/ PipeBusy(c) \/ Verify(c)
    \/ Handshake(c) \/ LoseService(c) \/ ClientUpdates(c) \/ GiveUp(c) \/ Leave(c)
    \/ Again(c)

PipeNext ==
    \/ StartService \/ ProcessEnds \/ Serve \/ ConnectFails
    \/ OtherTakesName \/ OtherGivesUp
    \/ \E c \in Clients : ClientStep(c)

PipeSpec == PipeInit /\ [][PipeNext]_pipeVars

\* The listening thread runs; ConnectNamedPipe returns once there is a client.
FairPipeSpec == PipeSpec /\ WF_pipeVars(Serve)

-----------------------------------------------------------------------------
(* Properties *)

\* Every variable has its type, and only the process there is holds instances.
PipeTypeOK ==
    /\ installed \in 1..MaxBuild
    /\ build \in 1..installed
    /\ born \in 0..MaxStarts
    /\ pid \in Pids \cup {0}
    /\ spc \in {"off", "start"} \cup Reported
    /\ next \in Clients \cup {Nil, Free, Left}
    /\ cur \in Clients \cup {Nil, Left, Broken}
    /\ sessions \subseteq Clients
    /\ other \in Pids \cup {0}
    /\ st \in [Clients -> {"idle", "open", "verify", "ok", "using", "done"}]
    /\ conn \in [Clients -> (0..born) \cup {Other, Gone}]
    /\ server \in [Clients -> Pids \cup {0}]
    /\ want \in [Clients -> 0..MaxBuild]
    /\ result \in [Clients -> {Nil, "none", "busy", "refused", "lost", "back", "waiting"}]
    /\ (spc \notin Listening) => (next = Nil /\ cur = Nil /\ sessions = {})

\* "The name never lapses for another process to take": from its first
\* instance until it ends, the service holds the name by the loop's own
\* instance, whatever clients come and leave and whichever call fails.
\* So no other program ever has instances of it at the same time, across the
\* service's restarts: "fail loudly rather than share it".
NameHeld == (spc \in Listening) => (next # Nil \/ cur # Nil) /\ other = 0

\* "A process that took the name first gets nothing": the pipe a client goes on with
\* past connect_to is never one that the other program serves, though pids are used
\* again and processes end and start between its opening and the comparison; a pipe
\* whose server is gone may pass it, and gives nothing.
TrustsOnlyService == \A c \in Clients : st[c] \in {"ok", "using"} => conn[c] # Other

\* A client that has connected to a service gets a thread, is told it is gone,
\* or leaves: no connection is forgotten in the hand-over.
HandsOver ==
    \A c \in Clients :
        (st[c] = "ok" /\ Linked(c)) ~> (c \in sessions \/ st[c] # "ok" \/ ~Linked(c))

=============================================================================
