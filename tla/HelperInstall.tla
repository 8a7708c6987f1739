---------------------------- MODULE HelperInstall ----------------------------
(***************************************************************************)
(* `helper install` and `helper uninstall`, run from an elevated terminal, *)
(* against the service manager and the service's own processes.            *)
(*                                                                         *)
(* Each service the command creates has a number, and at most one process. *)
(* A build is a number; Junk is a file whose copying failed half-way.  Any *)
(* call to the system may fail, MaxFaults of them in one command, and the  *)
(* command itself may be ended at any step.                                *)
(***************************************************************************)
EXTENDS Integers

CONSTANTS
    Builds,     \* the builds an install may be run from
    MaxGen,     \* bound: services created
    MaxFaults,  \* bound: system calls that fail in one command
    None, Junk

ASSUME BoundsAreNat == MaxGen \in Nat \ {0} /\ MaxFaults \in Nat
ASSUME MarkersAreNoBuilds == {None, Junk} \cap Builds = {} /\ None # Junk
ASSUME NoneIsNoCommand == None # "install"

\* What the service manager has of the g-th service.
Entries(g) ==
    [gen : {g}, conf : BOOLEAN, marked : BOOLEAN, state : {"stopped", "starting", "running"}]
ASSUME NoneIsNoEntry == \A g \in 1..MaxGen : None \notin Entries(g)

VARIABLES
    svc,      \* the service manager's entry, or None
    gens,     \* how many services have been created
    proc,     \* the phase of each service's process
    image,    \* the build it was started from
    pipe,     \* the service whose process has the pipe, 0 if none
    exe,      \* the file in the install folder, None if there is no folder
    others,   \* another program (the Services window) has the service open
    cmd,      \* the command that runs, or was run last
    mine,     \* the build it is run from
    own,      \* it is run from the file in the install folder
    apc,      \* where it is, "idle" if none runs
    held,     \* it has the service open
    faults,   \* calls that have failed in it
    result,   \* how it ended
    answered, \* the service and the build that answered install's probe
    half      \* the entry there is was left half-made by a command that has ended

manager == <<svc, gens, others>>
process == <<proc, image, pipe>>
command == <<cmd, mine, own, apc, held, faults, result, answered, half>>
vars == <<manager, process, exe, command>>

Gens == 1..MaxGen
Alive == {"start", "run", "up", "told", "ending"}
\* Windows keeps a running program's file from being written or removed.
Locked == \E g \in Gens : proc[g] \in Alive

Init ==
    /\ svc = None
    /\ gens = 0
    /\ proc = [g \in Gens |-> "none"]
    /\ image = [g \in Gens |-> None]
    /\ pipe = 0
    /\ exe = None
    /\ others = FALSE
    /\ cmd = None
    /\ mine \in Builds
    /\ own = FALSE
    /\ apc = "idle"
    /\ held = FALSE
    /\ faults = 0
    /\ result = None
    /\ answered = None
    /\ half = FALSE

-----------------------------------------------------------------------------
(* The service manager *)

Start ==
    /\ svc # None
    /\ ~svc.marked
    /\ svc.state = "stopped"
    /\ proc[svc.gen] = "none"
    /\ exe \in Builds
    /\ svc' = [svc EXCEPT !.state = "starting"]
    /\ proc' = [proc EXCEPT ![svc.gen] = "start"]
    /\ image' = [image EXCEPT ![svc.gen] = exe]
    /\ UNCHANGED <<gens, others, pipe>>

\* Automatic starts, and the failure actions that restart_on_failure sets.
Restart ==
    /\ Start
    /\ UNCHANGED <<exe, command>>

\* A service marked for deletion is gone once it is stopped and nobody has it
\* open.
Reap ==
    /\ svc # None
    /\ svc.marked
    /\ svc.state = "stopped"
    /\ ~held
    /\ ~others
    /\ svc' = None
    /\ half' = FALSE
    /\ UNCHANGED <<gens, others, process, exe, cmd, mine, own, apc, held, faults, result, answered>>

OthersOpen ==
    /\ svc # None
    /\ others' = ~others
    /\ UNCHANGED <<svc, gens, process, exe, command>>

-----------------------------------------------------------------------------
(* The service's process: service_main, control *)

Phase(g, from, to) ==
    /\ proc[g] = from
    /\ proc' = [proc EXCEPT ![g] = to]
    /\ UNCHANGED <<gens, others, image, exe, command>>

Reports(g, state) ==
    svc' = IF svc # None /\ svc.gen = g THEN [svc EXCEPT !.state = state] ELSE svc

ReportRunning(g) ==
    /\ Phase(g, "start", "run")
    /\ Reports(g, "running")
    /\ UNCHANGED pipe

\* The first instance must be new.
CreatePipe(g) ==
    /\ pipe = 0
    /\ Phase(g, "run", "up")
    /\ pipe' = g
    /\ UNCHANGED svc

ListenFails(g) ==
    /\ proc[g] \in {"run", "up"}
    /\ Phase(g, proc[g], "ending")
    /\ Reports(g, "stopped")
    /\ UNCHANGED pipe

\* control reports SERVICE_STOPPED before the process exits.
HandleStop(g) ==
    /\ Phase(g, "told", "ending")
    /\ Reports(g, "stopped")
    /\ UNCHANGED pipe

Exit(g) ==
    /\ Phase(g, "ending", "none")
    /\ pipe' = IF pipe = g THEN 0 ELSE pipe
    /\ UNCHANGED svc

\* A crash, or a restart onto an update: the process ends without reporting.
Crash(g) ==
    /\ proc[g] \in Alive
    /\ Phase(g, proc[g], "none")
    /\ Reports(g, "stopped")
    /\ pipe' = IF pipe = g THEN 0 ELSE pipe

-----------------------------------------------------------------------------
(* The commands *)

Goto(step) ==
    /\ apc' = step
    /\ UNCHANGED <<cmd, mine, own, faults, result, answered, half>>

\* The command returns, and its handles are closed.
Done(r) ==
    /\ apc' = "idle"
    /\ held' = FALSE
    /\ result' = r
    /\ UNCHANGED <<cmd, mine, own, faults, answered, half>>

\* A call failed, and with it the command.
Fault ==
    /\ faults < MaxFaults
    /\ faults' = faults + 1
    /\ apc' = "idle"
    /\ held' = FALSE
    /\ result' = "error"
    /\ UNCHANGED <<cmd, mine, own, answered, half>>

\* A SID that is not one, or a terminal that is not elevated, is refused
\* before anything is changed.
Begin ==
    /\ apc = "idle"
    /\ cmd' \in {"install", "uninstall"}
    /\ mine' \in Builds
    /\ own' \in BOOLEAN
    /\ own' => exe = mine'
    /\ faults' = 0
    /\ answered' = None
    /\ \/ apc' = "open" /\ result' = None
       \/ apc' = "idle" /\ result' = "refused"
    /\ UNCHANGED <<manager, process, exe, held, half>>

AfterRemoveUncopied == IF cmd = "install" THEN "create" ELSE "rmdir" \* A mutation.
AfterRemove == IF cmd = "install" THEN "copy" ELSE "rmdir"

OpenService ==
    /\ apc = "open"
    /\ \/ svc = None /\ Goto(AfterRemove) /\ UNCHANGED held
       \/ svc # None /\ Goto("stop") /\ held' = TRUE
       \/ Fault
    /\ UNCHANGED <<manager, process, exe>>

\* ControlService: a service that is not running, or is starting or stopping,
\* does not take the control, which is no error here.
StopService ==
    /\ apc = "stop"
    /\ \/ /\ Goto("wait")
          /\ proc' = [proc EXCEPT ![svc.gen] =
                        IF @ \in {"run", "up"} /\ svc.state = "running" THEN "told" ELSE @]
          /\ UNCHANGED held
       \/ Fault /\ UNCHANGED proc
    /\ UNCHANGED <<manager, image, pipe, exe>>

\* It has stopped, or WAIT has passed: that it runs on is not looked at.
WaitStopped ==
    /\ apc = "wait"
    /\ Goto("delete")
    /\ UNCHANGED <<manager, process, exe, held>>

DeleteService ==
    /\ apc = "delete"
    /\ \/ /\ svc' = [svc EXCEPT !.marked = TRUE]
          /\ Goto("gone")
          /\ held' = FALSE
       \/ Fault /\ UNCHANGED svc
    /\ UNCHANGED <<gens, others, process, exe>>

Gone == svc = None

WaitGone ==
    /\ apc = "gone"
    /\ \/ Gone /\ Goto(AfterRemove) /\ UNCHANGED held
       \/ svc # None /\ (others \/ svc.state # "stopped") /\ Done("error")
    /\ UNCHANGED <<manager, process, exe>>

\* Run from the installed file, install has nothing to copy.
SameFile ==
    /\ apc = "copy"
    /\ own
    /\ Goto("create")
    /\ UNCHANGED <<manager, process, exe, held>>

\* copy_exe retries while the old process still has the file; a copy that
\* fails may have written a part.
CopyExe ==
    /\ apc = "copy"
    /\ ~own
    /\ ~Locked
    /\ \/ exe' = mine /\ Goto("create") /\ UNCHANGED held
       \/ exe' \in {exe, Junk} /\ Fault
    /\ UNCHANGED <<manager, process>>

CreateService ==
    /\ apc = "create"
    /\ gens < MaxGen
    /\ \/ /\ gens' = gens + 1
          /\ svc' = [gen |-> gens + 1, conf |-> FALSE, marked |-> FALSE, state |-> "stopped"]
          /\ Goto("configure")
          /\ held' = TRUE
       \/ Fault /\ UNCHANGED <<svc, gens>>
    /\ UNCHANGED <<others, process, exe>>

HalfDeleted == [svc EXCEPT !.marked = TRUE]

\* That DeleteService fails as well is not looked at.
StaysHalf ==
    /\ faults + 2 <= MaxFaults
    /\ faults' = faults + 2
    /\ apc' = "idle"
    /\ held' = FALSE
    /\ result' = "error"
    /\ half' = TRUE
    /\ UNCHANGED <<svc, cmd, mine, own, answered>>

Configure ==
    /\ apc = "configure"
    /\ \/ svc' = [svc EXCEPT !.conf = TRUE] /\ Goto("start") /\ UNCHANGED held
       \/ svc' = HalfDeleted /\ Fault
       \/ StaysHalf
    /\ UNCHANGED <<gens, others, process, exe>>

StartService ==
    /\ apc = "start"
    /\ \/ Start /\ Goto("probe") /\ UNCHANGED held
       \/ Fault /\ UNCHANGED <<manager, process>>
    /\ UNCHANGED exe

\* A mutation: the probe believes whichever process has the pipe.
AnswersAny == pipe # 0
\* The pipe's server is the service's process, and the service is running.
Answers == pipe # 0 /\ svc # None /\ svc.gen = pipe /\ svc.state = "running"

\* install probes until the service answers, or WAIT has passed.
Probe ==
    /\ apc = "probe"
    /\ \/ /\ Answers
          /\ apc' = "idle"
          /\ held' = FALSE
          /\ result' = "ok"
          /\ answered' = [gen |-> pipe, build |-> image[pipe]]
          /\ UNCHANGED <<cmd, mine, own, faults, half>>
       \/ Done("error")
    /\ UNCHANGED <<manager, process, exe>>

RemoveDir ==
    /\ apc = "rmdir"
    /\ ~own
    /\ ~Locked
    /\ \/ exe' = None /\ Done("ok")
       \/ exe' \in {exe, Junk} /\ exe # None /\ Fault
    /\ UNCHANGED <<manager, process>>

\* The file stays locked for longer than retry retries: by the service's
\* process, or by the uninstall that is run from it.
RetryFails ==
    /\ \/ apc \in {"copy", "rmdir"} /\ Locked
       \/ apc = "rmdir" /\ own
    /\ Done("error")
    /\ UNCHANGED <<manager, process, exe>>

\* The command is ended (Ctrl-C, a closed terminal).
CommandDies ==
    /\ apc # "idle"
    /\ apc' = "idle"
    /\ held' = FALSE
    /\ result' = "died"
    /\ half' = (half \/ apc = "configure")
    /\ UNCHANGED <<manager, process, exe, cmd, mine, own, faults, answered>>

-----------------------------------------------------------------------------
RemoveSteps == OpenService \/ StopService \/ WaitStopped \/ DeleteService \/ WaitGone
InstallSteps == SameFile \/ CopyExe \/ CreateService \/ Configure \/ StartService \/ Probe
UninstallSteps == RemoveDir

ProcessStep(g) ==
    ReportRunning(g) \/ CreatePipe(g) \/ ListenFails(g) \/ HandleStop(g) \/ Exit(g) \/ Crash(g)

Next ==
    \/ Begin \/ RemoveSteps \/ InstallSteps \/ UninstallSteps \/ RetryFails \/ CommandDies
    \/ Restart \/ Reap \/ OthersOpen
    \/ \E g \in Gens : ProcessStep(g)

Spec == Init /\ [][Next]_vars

-----------------------------------------------------------------------------
(* Properties *)

\* Every variable has its type; only the last service that was created can
\* have an entry; and a command has it open just while it is at a step that
\* uses it.
TypeOK ==
    /\ gens \in 0..MaxGen
    /\ svc = None \/ (gens > 0 /\ svc \in Entries(gens))
    /\ proc \in [Gens -> Alive \cup {"none"}]
    /\ image \in [Gens -> Builds \cup {None}]
    /\ pipe \in {0} \cup Gens
    /\ exe \in Builds \cup {None, Junk}
    /\ cmd \in {None, "install", "uninstall"}
    /\ mine \in Builds
    /\ {own, held, half} \subseteq BOOLEAN
    /\ faults \in 0..MaxFaults
    /\ held <=> apc \in {"stop", "wait", "delete", "configure", "start", "probe"}
    /\ apc \in {"idle", "open", "stop", "wait", "delete", "gone", "copy", "create",
               "configure", "start", "probe", "rmdir"}

\* An install that says it is installed was answered by the service it has
\* just created, running the build it has just copied: not by a process of the
\* old service, which may still hold the pipe after it reported its stop.  An
\* uninstall that says so leaves no service, no folder and no process.
SuccessIsTrue ==
    (apc = "idle" /\ result = "ok") =>
        IF cmd = "install" THEN answered = [gen |-> gens, build |-> exe]
        ELSE svc = None /\ exe = None /\ ~Locked

\* Whichever step fails, or the command is ended at: a service that can be
\* started has a whole file to run, since install removes the old service
\* before it touches the file, and creates the new one after.  And "half a
\* service is worse than none": a command that returned, with an error or not,
\* left no service without its privileges and failure actions, unless the call
\* that removes it failed as well, which create_service does not look at.
NoHalfService ==
    (svc # None /\ ~svc.marked) =>
        /\ exe \in Builds
        /\ (apc = "idle" /\ ~half) => svc.conf

=============================================================================
