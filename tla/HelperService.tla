---------------------------- MODULE HelperService ----------------------------
(***************************************************************************)
(* The Windows helper service as it updates itself.                        *)
(*                                                                         *)
(* One service process runs a checker thread (spawn_checks) and one thread *)
(* per client session (serve_pipe).  Any of them may run check_for_update, *)
(* which swaps a verified build in for the running exe, step by step, and  *)
(* then ends the process so that the service manager starts it again.  The *)
(* process may be stopped, or die, between any two steps.                  *)
(*                                                                         *)
(* A build is its version number.  Junk stands for any other bytes: a      *)
(* truncated or half-written file, a download that is not a release.       *)
(***************************************************************************)
EXTENDS Integers, FiniteSets

CONSTANTS
    Sessions,    \* the session threads that may exist at once
    MaxVersion,  \* bound: releases are numbered 1..MaxVersion
    Checker,     \* the thread spawn_checks starts
    NoFile,      \* "this path does not exist"
    Junk,        \* bytes that are no release
    None,        \* Option::None, and "nobody holds the lock"
    UpToDate,    \* Update::UpToDate
    Failed       \* Err(_)

ASSUME SessionsFinite == IsFiniteSet(Sessions)
ASSUME CheckerDistinct == Checker \notin Sessions
ASSUME MaxVersionAssumption == MaxVersion \in Nat \ {0}
ASSUME NoneIsNoThread == None \notin Sessions \cup {Checker}
ASSUME MarkersAreNoVersions ==
    \A m \in {NoFile, Junk, None, UpToDate, Failed} : m \notin Nat
ASSUME MarkersDistinct ==
    /\ NoFile # Junk
    /\ None \notin {Junk, UpToDate, Failed}

VARIABLES
    exe, new, old,  \* the files EXE, NEW and OLD of the install folder
    status,         \* the outcome the status file records
    proc,           \* the process, as the service manager sees it
    running,        \* the build of the current (or else the last) process
    image,          \* which path the running image's file has now
    INSTALLED,      \* static INSTALLED: the version swapped in
    lock,           \* the thread that holds INSTALLED's mutex
    ACTIVE,         \* static ACTIVE
    WAITING,        \* static WAITING of restart_when_idle
    late,           \* the waiting thread saw its deadline pass
    pc,             \* where each thread is
    sig,            \* check_for_update's local `sig`
    body,           \* check_for_update's local `exe`: the verified bytes
    outcome         \* what a thread's finished check returned

files == <<exe, new, old>>
statics == <<INSTALLED, lock, ACTIVE, WAITING, late>>
locals == <<sig, body, outcome>>
threads == <<pc, locals>>
vars == <<files, status, proc, running, image, statics, threads>>

Threads == Sessions \cup {Checker}
Versions == 1..MaxVersion

\* A signature as the updater sees it: the version its trusted comment names
\* (None if the comment is not of the expected form) and the bytes the release
\* key signed.  The release key signs a build together with its own version;
\* anything else that decodes as a signature verifies against no bytes.
Signatures ==
    {[ver |-> v, signs |-> v] : v \in Versions}
        \cup {[ver |-> v, signs |-> None] : v \in Versions \cup {None}}

\* The points of check_for_update at which the mutex is held.
Critical == {"sig", "exe", "create", "write", "rm_old", "mv_exe", "mv_new", "rollback"}
\* The points at which a session holds its Busy.
Counted == {"serving", "lock", "record", "reply"} \cup Critical
\* The process exists.
Live == {"clean_old", "clean_new", "listen", "up"}
Home(t) == IF t = Checker THEN "sleep" ELSE "idle"

TypeOK ==
    /\ exe \in Versions \cup {NoFile}
    /\ new \in Versions \cup {NoFile, Junk}
    /\ old \in Versions \cup {NoFile}
    /\ status \in Versions \cup {None, UpToDate, Failed}
    /\ proc \in Live \cup {"exited", "failed", "stopped", "nostart"}
    /\ running \in Versions
    /\ image \in {"exe", "old"}
    /\ INSTALLED \in Versions \cup {None}
    /\ lock \in Threads \cup {None}
    /\ ACTIVE \in Nat
    /\ WAITING \in BOOLEAN
    /\ late \in BOOLEAN
    /\ pc \in [Threads -> {"idle", "sleep", "accepted", "hook", "wait", "exit"} \cup Counted]
    /\ sig \in [Threads -> Signatures \cup {None}]
    /\ body \in [Threads -> Versions \cup {None}]
    /\ outcome \in [Threads -> Versions \cup {None, UpToDate, Failed}]

\* Just installed: `helper install` copied some release and started the service.
Init ==
    /\ exe \in Versions
    /\ new = NoFile
    /\ old = NoFile
    /\ status = None
    /\ proc = "clean_old"
    /\ running = exe
    /\ image = "exe"
    /\ INSTALLED = None
    /\ lock = None
    /\ ACTIVE = 0
    /\ WAITING = FALSE
    /\ late = FALSE
    /\ pc = [t \in Threads |-> Home(t)]
    /\ sig = [t \in Threads |-> None]
    /\ body = [t \in Threads |-> None]
    /\ outcome = [t \in Threads |-> None]

-----------------------------------------------------------------------------
(* The process and the service manager *)

\* The process ends: its threads and its statics are gone, the folder stays.
EndProcess(state) ==
    /\ proc' = state
    /\ INSTALLED' = None
    /\ lock' = None
    /\ ACTIVE' = 0
    /\ WAITING' = FALSE
    /\ late' = FALSE
    /\ pc' = [t \in Threads |-> Home(t)]
    /\ sig' = [t \in Threads |-> None]
    /\ body' = [t \in Threads |-> None]
    /\ outcome' = [t \in Threads |-> None]
    /\ UNCHANGED <<files, status, running, image>>

\* The service manager runs whatever is at the exe's path; there may be nothing.
Launch ==
    /\ IF exe = NoFile
         THEN proc' = "nostart" /\ UNCHANGED <<running, image>>
         ELSE proc' = "clean_old" /\ running' = exe /\ image' = "exe"
    /\ UNCHANGED <<files, status, statics, threads>>

\* restart_on_failure: the process ended without a clean SERVICE_STOPPED.
FailureAction == proc \in {"exited", "failed"} /\ Launch

\* A boot, or an administrator, starts a service that is not running.
ManualStart == proc \in {"stopped", "nostart"} /\ Launch

\* service_main, clean_up: remove OLD, then NEW, each as far as it goes.
CleanOld ==
    /\ proc = "clean_old"
    /\ proc' = "clean_new"
    /\ old' \in {NoFile, old}
    /\ UNCHANGED <<exe, new, status, running, image, statics, threads>>

CleanNew ==
    /\ proc = "clean_new"
    /\ proc' = "listen"
    /\ new' \in {NoFile, new}
    /\ UNCHANGED <<exe, old, status, running, image, statics, threads>>

\* spawn_checks, then the first pipe instance.
Listen ==
    /\ proc = "listen"
    /\ proc' = "up"
    /\ UNCHANGED <<files, status, running, image, statics, threads>>

\* listen returned an error: SERVICE_STOPPED is reported with it, a failure.
ListenFails == proc \in {"listen", "up"} /\ EndProcess("failed")

Crash == proc \in Live /\ EndProcess("failed")

\* control: STOP or SHUTDOWN, at any moment.
Control == proc \in Live /\ EndProcess("stopped")

-----------------------------------------------------------------------------
(* Client sessions *)

Goto(t, l) == pc' = [pc EXCEPT ![t] = l]

\* ConnectNamedPipe returned; the session's thread is spawned but has not run.
Accept(s) ==
    /\ proc = "up"
    /\ pc[s] = "idle"
    /\ Goto(s, "accepted")
    /\ UNCHANGED <<files, status, proc, running, image, statics, locals>>

\* Busy::enter, the thread's first act.
Enter(s) ==
    /\ pc[s] = "accepted"
    /\ ACTIVE' = ACTIVE + 1
    /\ Goto(s, "serving")
    /\ UNCHANGED <<files, status, proc, running, image, INSTALLED, lock, WAITING, late,
                   locals>>

\* A mutation: Busy is leaked.
SessionEndsBusy(s) ==
    /\ pc[s] = "serving"
    /\ Goto(s, "idle")
    /\ UNCHANGED <<files, status, proc, running, image, statics, locals>>

\* serve_client returned without an update; Busy is dropped.
SessionEnds(s) ==
    /\ pc[s] = "serving"
    /\ ACTIVE' = ACTIVE - 1
    /\ Goto(s, "idle")
    /\ UNCHANGED <<files, status, proc, running, image, INSTALLED, lock, WAITING, late,
                   locals>>

\* The client sent UPDATE.
AskUpdate(s) ==
    /\ pc[s] = "serving"
    /\ Goto(s, "lock")
    /\ UNCHANGED <<files, status, proc, running, image, statics, locals>>

\* UPDATE's reply.  If the client is gone, `respond(..)?` ends the session as an
\* error; if the update was installed, it ends as Updated and the hook is next.
Reply(s) ==
    /\ pc[s] = "reply"
    /\ outcome' = [outcome EXCEPT ![s] = None]
    /\ \/ /\ outcome[s] \in Versions
          /\ Goto(s, "hook")
          /\ ACTIVE' = ACTIVE - 1
       \/ /\ outcome[s] \notin Versions
          /\ Goto(s, "serving")
          /\ UNCHANGED ACTIVE
       \/ /\ Goto(s, "idle")
          /\ ACTIVE' = ACTIVE - 1
    /\ UNCHANGED <<files, status, proc, running, image, INSTALLED, lock, WAITING, late, sig, body>>

-----------------------------------------------------------------------------
(* check_and_record *)

\* spawn_checks: the ten minutes, or the day, are over.
CheckerWakes ==
    /\ proc = "up"
    /\ pc[Checker] = "sleep"
    /\ Goto(Checker, "lock")
    /\ UNCHANGED <<files, status, proc, running, image, statics, locals>>

\* check_for_update returns; the guard of INSTALLED is dropped.
Return(t, result) ==
    /\ lock' = None
    /\ outcome' = [outcome EXCEPT ![t] = result]
    /\ sig' = [sig EXCEPT ![t] = None]
    /\ body' = [body EXCEPT ![t] = None]
    /\ Goto(t, "record")

\* A mutation: a second check in one run answers "up to date".
LockInstalledForgets(t) ==
    /\ pc[t] = "lock"
    /\ lock = None
    /\ IF INSTALLED # None
         THEN Return(t, UpToDate)
         ELSE lock' = t /\ Goto(t, "sig") /\ UNCHANGED locals
    /\ UNCHANGED <<files, status, proc, running, image, INSTALLED, ACTIVE, WAITING, late>>

\* Takes the mutex; an update already installed in this run is the answer.
LockInstalled(t) ==
    /\ pc[t] = "lock"
    /\ lock = None
    /\ IF INSTALLED # None
         THEN Return(t, INSTALLED)
         ELSE lock' = t /\ Goto(t, "sig") /\ UNCHANGED locals
    /\ UNCHANGED <<files, status, proc, running, image, INSTALLED, ACTIVE, WAITING, late>>

\* Fetches the signature and looks at the version it announces.
FetchSig(t) ==
    /\ pc[t] = "sig"
    /\ \/ Return(t, Failed)
       \/ \E s \in Signatures :
            /\ s.ver # None
            /\ IF s.ver <= running
                 THEN Return(t, UpToDate)
                 ELSE /\ sig' = [sig EXCEPT ![t] = s]
                      /\ Goto(t, "exe")
                      /\ UNCHANGED <<lock, body, outcome>>
    /\ UNCHANGED <<files, status, proc, running, image, INSTALLED, ACTIVE, WAITING, late>>

\* A mutation: the comment is trusted without the bytes.
VerifiesCommentOnly(bytes, s) == bytes # Junk /\ s.ver # None /\ s.ver > running

\* verify_update(key, bytes, sig, running) succeeds.
Verifies(bytes, s) ==
    /\ s.signs = bytes
    /\ s.ver # None
    /\ s.ver > running

\* Fetches the exe, which may by now be of another release than the signature,
\* and verifies it.
FetchExe(t) ==
    /\ pc[t] = "exe"
    /\ \/ Return(t, Failed)
       \/ \E bytes \in Versions \cup {Junk} :
            IF Verifies(bytes, sig[t])
              THEN /\ body' = [body EXCEPT ![t] = bytes]
                   /\ Goto(t, "create")
                   /\ UNCHANGED <<lock, sig, outcome>>
              ELSE Return(t, Failed)
    /\ UNCHANGED <<files, status, proc, running, image, INSTALLED, ACTIVE, WAITING, late>>

\* install: File::create truncates NEW, write_all and sync_all fill it.
CreateNew(t) ==
    /\ pc[t] = "create"
    /\ \/ new' = Junk /\ Goto(t, "write") /\ UNCHANGED <<lock, locals>>
       \/ Return(t, Failed) /\ UNCHANGED new
    /\ UNCHANGED <<exe, old, status, proc, running, image, INSTALLED, ACTIVE, WAITING, late>>

\* A mutation: a failed write is ignored.
WriteNewIgnoringErrors(t) ==
    /\ pc[t] = "write"
    /\ new' \in {body[t], Junk}
    /\ Goto(t, "rm_old")
    /\ UNCHANGED <<exe, old, status, proc, running, image, statics, locals>>

WriteNew(t) ==
    /\ pc[t] = "write"
    /\ \/ new' = body[t] /\ Goto(t, "rm_old") /\ UNCHANGED <<lock, locals>>
       \/ Return(t, Failed) /\ UNCHANGED new
    /\ UNCHANGED <<exe, old, status, proc, running, image, INSTALLED, ACTIVE, WAITING, late>>

\* swap: OLD goes first.  Windows does not delete a running image.
RemoveOld(t) ==
    /\ pc[t] = "rm_old"
    /\ \/ /\ old = NoFile \/ image # "old"
          /\ old' = NoFile
          /\ Goto(t, "mv_exe")
          /\ UNCHANGED <<lock, locals>>
       \/ old # NoFile /\ Return(t, Failed) /\ UNCHANGED old
    /\ UNCHANGED <<exe, new, status, proc, running, image, INSTALLED, ACTIVE, WAITING, late>>

\* A mutation: the running exe is not kept.
MoveExeAway(t) ==
    /\ pc[t] = "mv_exe"
    /\ exe' = NoFile
    /\ image' = "old"
    /\ Goto(t, "mv_new")
    /\ UNCHANGED <<new, old, status, proc, running, statics, locals>>

\* rename(exe, old)
MoveExe(t) ==
    /\ pc[t] = "mv_exe"
    /\ \/ /\ exe # NoFile
          /\ old' = exe
          /\ exe' = NoFile
          /\ image' = "old"
          /\ Goto(t, "mv_new")
          /\ UNCHANGED <<lock, locals>>
       \/ Return(t, Failed) /\ UNCHANGED <<exe, old, image>>
    /\ UNCHANGED <<new, status, proc, running, INSTALLED, ACTIVE, WAITING, late>>

\* A mutation: INSTALLED is set before the rename is known to have worked.
MoveNewEarly(t) ==
    /\ pc[t] = "mv_new"
    /\ INSTALLED' = body[t]
    /\ \/ exe' = new /\ new' = NoFile /\ Return(t, body[t])
       \/ Goto(t, "rollback") /\ UNCHANGED <<exe, new, lock, locals>>
    /\ UNCHANGED <<old, status, proc, running, image, ACTIVE, WAITING, late>>

\* rename(new, exe), and then check_for_update's `*installed = Some(v)`.
MoveNew(t) ==
    /\ pc[t] = "mv_new"
    /\ \/ /\ exe' = new
          /\ new' = NoFile
          /\ INSTALLED' = body[t]
          /\ Return(t, body[t])
       \/ Goto(t, "rollback") /\ UNCHANGED <<exe, new, INSTALLED, lock, locals>>
    /\ UNCHANGED <<old, status, proc, running, image, ACTIVE, WAITING, late>>

\* `let _ = fs::rename(old, exe)`: whether or not it works, the swap failed.
Rollback(t) ==
    /\ pc[t] = "rollback"
    /\ \/ exe' = old /\ old' = NoFile /\ image' = "exe"
       \/ UNCHANGED <<exe, old, image>>
    /\ Return(t, Failed)
    /\ UNCHANGED <<new, status, proc, running, INSTALLED, ACTIVE, WAITING, late>>

\* A mutation: the checker restarts after every check that did not fail.
RecordRestarts(t) ==
    /\ pc[t] = "record"
    /\ status' \in {status, outcome[t]}
    /\ IF t = Checker
         THEN /\ Goto(t, IF outcome[t] # Failed THEN "hook" ELSE "sleep")
              /\ outcome' = [outcome EXCEPT ![t] = None]
         ELSE Goto(t, "reply") /\ UNCHANGED outcome
    /\ UNCHANGED <<files, proc, running, image, statics, sig, body>>

\* check_and_record writes the status file, outside the mutex; a failure to
\* write is ignored.  The checker goes on to the hook itself.
Record(t) ==
    /\ pc[t] = "record"
    /\ status' \in {status, outcome[t]}
    /\ IF t = Checker
         THEN /\ Goto(t, IF outcome[t] \in Versions THEN "hook" ELSE "sleep")
              /\ outcome' = [outcome EXCEPT ![t] = None]
         ELSE Goto(t, "reply") /\ UNCHANGED outcome
    /\ UNCHANGED <<files, proc, running, image, statics, sig, body>>

-----------------------------------------------------------------------------
(* restart_when_idle *)

\* WAITING.swap(true): only the first caller waits.
Hook(t) ==
    /\ pc[t] = "hook"
    /\ WAITING' = TRUE
    /\ Goto(t, IF WAITING THEN Home(t) ELSE "wait")
    /\ UNCHANGED <<files, status, proc, running, image, INSTALLED, lock, ACTIVE, late,
                   locals>>

\* The loop's condition is false: no session is counted, or the hour is over.
StopWaiting(t) ==
    /\ pc[t] = "wait"
    /\ late' = (ACTIVE > 0)
    /\ Goto(t, "exit")
    /\ UNCHANGED <<files, status, proc, running, image, INSTALLED, lock, ACTIVE, WAITING,
                   locals>>

\* process::exit(1), without reporting SERVICE_STOPPED.
Exit(t) == pc[t] = "exit" /\ EndProcess("exited")

-----------------------------------------------------------------------------
CheckStep(t) ==
    \/ LockInstalled(t) \/ FetchSig(t) \/ FetchExe(t)
    \/ CreateNew(t) \/ WriteNew(t) \/ RemoveOld(t) \/ MoveExe(t) \/ MoveNew(t) \/ Rollback(t)
    \/ Record(t)

RestartStep(t) == Hook(t) \/ StopWaiting(t) \/ Exit(t)

SessionStep(s) ==
    Accept(s) \/ Enter(s) \/ SessionEnds(s) \/ AskUpdate(s) \/ Reply(s)

ProcessStep ==
    \/ FailureAction \/ ManualStart
    \/ CleanOld \/ CleanNew \/ Listen
    \/ ListenFails \/ Crash \/ Control

Next ==
    \/ ProcessStep
    \/ CheckerWakes
    \/ \E s \in Sessions : SessionStep(s)
    \/ \E t \in Threads : CheckStep(t) \/ RestartStep(t)

Spec == Init /\ [][Next]_vars

\* A started service gets through its start-up, its threads keep running, the
\* daily sleep ends, every fetch ends (curl's --max-time), and the service
\* manager carries out its failure actions.  No client is assumed to do
\* anything, and neither a stop nor a later start is.
Fairness ==
    /\ WF_vars(FailureAction)
    /\ WF_vars(CleanOld)
    /\ WF_vars(CleanNew)
    /\ WF_vars(Listen)
    /\ WF_vars(CheckerWakes)
    /\ \A s \in Sessions : WF_vars(Enter(s)) /\ WF_vars(Reply(s))
    /\ \A t \in Threads : WF_vars(CheckStep(t)) /\ WF_vars(RestartStep(t))

FairSpec == Spec /\ Fairness

-----------------------------------------------------------------------------
(* Properties *)

\* However the updater is interrupted, whatever stands at the exe's path is a
\* whole release, and never an older one than the service last ran
\* (verify_update's "strictly newer", through swap and its rollback).
ExeNeverOlder == exe # NoFile => exe \in Versions /\ exe >= running

\* swap's detour never leaves the folder without a program: while the exe's path
\* is empty, the build that ran last is still whole at OLD.
SomeBuildSurvives == exe = NoFile => old = running

\* "updated to v" is only ever said, to a client, to the status file's writer or
\* to the next check, while v is at the exe's path and newer than the process.
InstalledIsOnDisk ==
    /\ INSTALLED # None => exe = INSTALLED /\ INSTALLED > running
    /\ \A t \in Threads : outcome[t] \in Versions => outcome[t] = INSTALLED

\* ACTIVE is exactly the number of session threads inside their Busy, through
\* every way a session can end.
ActiveCounts == ACTIVE = Cardinality({s \in Sessions : pc[s] \in Counted})

\* The exit(1) of restart_when_idle is never a plain restart, nor one that finds
\* no program: what the failure action starts is a newer build.
RestartRunsNewer == proc = "exited" => exe # NoFile /\ exe > running

\* The service never goes back to an older build, over all its restarts.
RunningNeverOlder == [][running' >= running]_vars

\* An update that was installed is run, unless somebody stops the service: also
\* when the client that asked for it hung up before its reply (so that its
\* session never reaches the hook) and while other clients never leave.
UpdateTakesEffect ==
    \A v \in Versions : INSTALLED = v ~> running >= v \/ proc = "stopped"

=============================================================================
