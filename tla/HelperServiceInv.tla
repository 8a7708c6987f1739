--------------------------- MODULE HelperServiceInv ---------------------------
(***************************************************************************)
(* What makes HelperService's safety properties inductive: how the control *)
(* state of the threads, the two statics INSTALLED and its mutex, and the  *)
(* three files of the install folder constrain each other.                 *)
(***************************************************************************)
EXTENDS HelperService

\* The mutex is held by the thread inside check_for_update, and by nobody else.
LockInv == \A t \in Threads : pc[t] \in Critical <=> lock = t

\* There are no threads, and the statics are fresh, unless the service is up.
\* A process that is still starting runs from the exe's path.
QuietInv ==
    /\ proc # "up" =>
         /\ \A t \in Threads : pc[t] = Home(t) /\ outcome[t] = None
         /\ INSTALLED = None
         /\ lock = None
         /\ ACTIVE = 0
    /\ proc \in Live \ {"up"} => image = "exe"

\* Where the running image is; the exe's path is empty only after its rename.
ImageInv ==
    proc \in Live =>
        /\ image = "exe" => exe = running
        /\ image = "old" => old = running /\ (exe = NoFile \/ exe = INSTALLED)

\* An installed update stands at the exe's path, in front of the running image.
InstalledInv ==
    INSTALLED # None => image = "old" /\ exe = INSTALLED /\ INSTALLED > running

\* One update per run: nobody is inside check_for_update once one is installed.
OneUpdateInv == \A t \in Threads : pc[t] \in Critical => INSTALLED = None

\* What a thread inside check_for_update has established so far.
FetchInv == \A t \in Threads : pc[t] = "exe" => sig[t] \in Signatures
BodyInv ==
    \A t \in Threads :
        pc[t] \in {"create", "write", "rm_old", "mv_exe", "mv_new", "rollback"}
            => body[t] \in Versions /\ body[t] > running
NewInv ==
    \A t \in Threads : pc[t] \in {"rm_old", "mv_exe", "mv_new"} => new = body[t]
SwapInv ==
    \A t \in Threads :
        /\ pc[t] = "mv_exe" => image = "exe"
        /\ pc[t] \in {"mv_new", "rollback"} => exe = NoFile /\ image = "old"

OutcomeInv == \A t \in Threads : outcome[t] \in Versions => outcome[t] = INSTALLED
HookInv == \A t \in Threads : pc[t] \in {"hook", "wait", "exit"} => INSTALLED # None

\* The strengthening: inductive together with TypeOK.
Inv ==
    /\ LockInv
    /\ QuietInv
    /\ ImageInv
    /\ InstalledInv
    /\ OneUpdateInv
    /\ FetchInv
    /\ BodyInv
    /\ NewInv
    /\ SwapInv
    /\ OutcomeInv
    /\ HookInv
    /\ ExeNeverOlder
    /\ SomeBuildSurvives
    /\ RestartRunsNewer

=============================================================================
