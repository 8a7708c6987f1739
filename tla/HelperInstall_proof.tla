------------------------- MODULE HelperInstall_proof -------------------------
(***************************************************************************)
(* What install and uninstall leave behind, for any builds, any number of  *)
(* services and of failing calls, and wherever a command is ended.         *)
(***************************************************************************)
EXTENDS HelperInstall, TLAPS

\* A program that runs is the file that is installed: the file is not written
\* while one runs.  The pipe is held by a process.
Running ==
    /\ \A g \in Gens : proc[g] \in Alive => image[g] = exe
    /\ pipe # 0 => proc[pipe] \in Alive

\* Where a command has come, and what it has done by then.
Progress ==
    /\ apc \in {"stop", "wait", "delete"} => svc # None
    /\ apc \in {"copy", "create", "rmdir"} => svc = None
    /\ apc \in {"configure", "start"} => svc # None /\ ~svc.marked
    /\ apc = "rmdir" => cmd # "install"
    /\ apc \in {"copy", "create", "configure", "start", "probe"} => cmd = "install"
    /\ apc \in {"open", "stop", "wait", "delete", "gone", "copy"} /\ own => exe = mine
    /\ apc = "create" => exe \in Builds

\* A service that can be started is whole, but for the one that is being made
\* or was left half-made.
WholeService ==
    svc # None /\ ~svc.marked =>
        /\ exe \in Builds
        /\ svc.conf \/ apc = "configure" \/ half

Inv == TypeOK /\ Running /\ Progress /\ WholeService /\ SuccessIsTrue

States == {"stopped", "starting", "running"}

\* The service manager's entry keeps what it is but for its state.
LEMMA EntryStates ==
    ASSUME TypeOK, svc # None, NEW s \in States
    PROVE  LET e == [svc EXCEPT !.state = s]
           IN  /\ gens > 0 /\ e \in Entries(gens) /\ e # None
               /\ e.gen = gens /\ e.conf = svc.conf /\ e.marked = svc.marked
<1>1. gens \in 1..MaxGen /\ svc \in Entries(gens)
  BY BoundsAreNat DEF TypeOK
<1>2. [svc EXCEPT !.state = s] \in Entries(gens)
  BY <1>1 DEF Entries, States
<1>3. None \notin Entries(gens)
  BY <1>1, NoneIsNoEntry
<1> QED
  BY <1>1, <1>2, <1>3 DEF Entries, States

LEMMA EntryFacts ==
    ASSUME TypeOK, svc # None
    PROVE  /\ gens \in Gens /\ svc.gen = gens
           /\ svc.conf \in BOOLEAN /\ svc.marked \in BOOLEAN /\ svc.state \in States
BY BoundsAreNat DEF TypeOK, Entries, Gens, States

-----------------------------------------------------------------------------
(* The processes and the service manager *)

\* While no command takes a step, what was true when it ended stays so.
LEMMA StillTrue ==
    ASSUME SuccessIsTrue, UNCHANGED <<exe, gens, cmd, apc, result, answered>>,
           svc = None => svc' = None, ~Locked => ~Locked'
    PROVE  SuccessIsTrue'
BY DEF SuccessIsTrue

\* One process changes its phase, and may report its state.
LEMMA ProcessMoves ==
    ASSUME Inv, NEW g \in Gens, NEW to \in Alive \cup {"none"}, proc[g] \in Alive,
           proc' = [proc EXCEPT ![g] = to],
           UNCHANGED <<gens, others, image, exe, command>>,
           \/ svc' = svc
           \/ svc # None /\ \E s \in States : svc' = [svc EXCEPT !.state = s],
           \/ pipe' = pipe /\ (pipe = g => to \in Alive)
           \/ pipe' = g /\ to \in Alive
           \/ pipe' = 0
    PROVE  Inv'
<1>1. /\ TypeOK /\ Running /\ Progress /\ WholeService /\ SuccessIsTrue
      /\ proc \in [Gens -> Alive \cup {"none"}]
  BY DEF Inv, TypeOK
<1>2. /\ svc = None => svc' = None
      /\ svc # None => /\ gens > 0 /\ svc' \in Entries(gens) /\ svc' # None
                       /\ svc'.conf = svc.conf /\ svc'.marked = svc.marked
  <2>1. svc # None => gens > 0 /\ svc \in Entries(gens)
    BY <1>1 DEF TypeOK
  <2>2. CASE svc' = svc
    BY <2>1, <2>2
  <2>3. CASE svc # None /\ \E s \in States : svc' = [svc EXCEPT !.state = s]
    BY <1>1, <2>3, EntryStates
  <2> QED
    BY <2>2, <2>3
<1>3. /\ proc' \in [Gens -> Alive \cup {"none"}]
      /\ \A h \in Gens : proc'[h] = IF h = g THEN to ELSE proc[h]
  BY <1>1
<1>4. UNCHANGED <<cmd, mine, own, apc, held, faults, result, answered, half>>
  BY DEF command
<1>5. TypeOK'
  BY <1>1, <1>2, <1>3, <1>4 DEF TypeOK, Entries
<1>6. Running'
  <2>1. \A h \in Gens : proc'[h] \in Alive => proc[h] \in Alive
    BY <1>3
  <2>2. pipe' # 0 => proc'[pipe'] \in Alive
    BY <1>1, <1>3 DEF Running, TypeOK
  <2> QED
    BY <1>1, <2>1, <2>2 DEF Running
<1>7. Progress'
  BY <1>1, <1>2, <1>4 DEF Progress
<1>8. WholeService'
  BY <1>1, <1>2, <1>4 DEF WholeService
<1>9. ~Locked => ~Locked'
  BY <1>3 DEF Locked
<1>10. SuccessIsTrue'
  BY <1>1, <1>2, <1>4, <1>9, StillTrue
<1> QED
  BY <1>5, <1>6, <1>7, <1>8, <1>10 DEF Inv

LEMMA ProcessSteps == Inv /\ (\E g \in Gens : ProcessStep(g)) => Inv'
<1> SUFFICES ASSUME Inv, NEW g \in Gens, ProcessStep(g) PROVE Inv'
  OBVIOUS
<1>1. ASSUME NEW s \in States, Reports(g, s)
      PROVE  \/ svc' = svc
             \/ svc # None /\ \E r \in States : svc' = [svc EXCEPT !.state = r]
  BY <1>1 DEF Reports
<1>2. "stopped" \in States /\ "running" \in States
  BY DEF States
<1>3. pipe # 0 => proc[pipe] \in Alive
  BY DEF Inv, Running
<1>4. CASE ReportRunning(g)
  <2>1. /\ proc[g] = "start" /\ proc' = [proc EXCEPT ![g] = "run"] /\ pipe' = pipe
        /\ UNCHANGED <<gens, others, image, exe, command>> /\ Reports(g, "running")
    BY <1>4 DEF ReportRunning, Phase
  <2>2. "start" \in Alive /\ "run" \in Alive
    BY DEF Alive
  <2> QED
    BY <1>1, <1>2, <2>1, <2>2, ProcessMoves
<1>5. CASE CreatePipe(g)
  <2>1. /\ proc[g] = "run" /\ proc' = [proc EXCEPT ![g] = "up"] /\ pipe' = g /\ svc' = svc
        /\ UNCHANGED <<gens, others, image, exe, command>>
    BY <1>5 DEF CreatePipe, Phase
  <2>2. "run" \in Alive /\ "up" \in Alive
    BY DEF Alive
  <2> QED
    BY <2>1, <2>2, ProcessMoves
<1>6. CASE ListenFails(g) \/ HandleStop(g)
  <2>1. /\ proc[g] \in {"run", "up", "told"} /\ proc' = [proc EXCEPT ![g] = "ending"]
        /\ UNCHANGED <<gens, others, image, exe, command>> /\ Reports(g, "stopped")
        /\ pipe' = pipe
    BY <1>6 DEF ListenFails, HandleStop, Phase
  <2>2. proc[g] \in Alive /\ "ending" \in Alive
    BY <2>1 DEF Alive
  <2> QED
    BY <1>1, <1>2, <2>1, <2>2, ProcessMoves
<1>7. CASE Exit(g) \/ Crash(g)
  <2>1. /\ proc[g] \in Alive /\ proc' = [proc EXCEPT ![g] = "none"]
        /\ UNCHANGED <<gens, others, image, exe, command>>
        /\ pipe' = (IF pipe = g THEN 0 ELSE pipe)
        /\ svc' = svc \/ Reports(g, "stopped")
    BY <1>7 DEF Exit, Crash, Phase, Alive
  <2>2. pipe' = 0 \/ (pipe' = pipe /\ pipe # g)
    BY <2>1
  <2> QED
    BY <1>1, <1>2, <2>1, <2>2, ProcessMoves
<1> QED
  BY <1>4, <1>5, <1>6, <1>7 DEF ProcessStep

\* A process is started from the file that is installed.
LEMMA Started ==
    ASSUME Inv, Start, UNCHANGED exe
    PROVE  /\ svc # None /\ svc' # None /\ gens > 0 /\ svc' \in Entries(gens) /\ ~svc'.marked
           /\ svc'.conf = svc.conf /\ ~svc.marked
           /\ proc' \in [Gens -> Alive \cup {"none"}]
           /\ image' \in [Gens -> Builds \cup {None}]
           /\ Running'
           /\ UNCHANGED <<gens, others, pipe>>
<1>1. TypeOK /\ Running
  BY DEF Inv
<1>2. /\ svc # None /\ ~svc.marked /\ exe \in Builds /\ svc' = [svc EXCEPT !.state = "starting"]
      /\ proc' = [proc EXCEPT ![svc.gen] = "start"] /\ image' = [image EXCEPT ![svc.gen] = exe]
      /\ UNCHANGED <<gens, others, pipe>> /\ proc[svc.gen] = "none"
  BY DEF Start
<1>3. gens \in Gens /\ svc.gen = gens
  BY <1>1, <1>2, EntryFacts
<1>4. "starting" \in States /\ "start" \in Alive /\ "none" \notin Alive
  BY DEF States, Alive
<1>5. /\ svc' # None /\ gens > 0 /\ svc' \in Entries(gens) /\ svc'.conf = svc.conf
      /\ svc'.marked = svc.marked
  BY <1>1, <1>2, <1>4, EntryStates
<1>6. proc \in [Gens -> Alive \cup {"none"}] /\ image \in [Gens -> Builds \cup {None}]
  BY <1>1 DEF TypeOK
<1>7. /\ \A h \in Gens : proc'[h] = IF h = gens THEN "start" ELSE proc[h]
      /\ \A h \in Gens : image'[h] = IF h = gens THEN exe ELSE image[h]
      /\ proc' \in [Gens -> Alive \cup {"none"}] /\ image' \in [Gens -> Builds \cup {None}]
  BY <1>2, <1>3, <1>4, <1>6
<1>8. Running'
  <2>1. pipe' # 0 => pipe' \in Gens /\ proc'[pipe'] \in Alive
    BY <1>1, <1>2, <1>4, <1>7 DEF Running, TypeOK
  <2>2. \A h \in Gens : proc'[h] \in Alive => image'[h] = exe
    BY <1>1, <1>7 DEF Running
  <2> QED
    BY <2>1, <2>2 DEF Running
<1> QED
  BY <1>2, <1>5, <1>7, <1>8

LEMMA ManagerSteps == Inv /\ (Restart \/ Reap \/ OthersOpen) => Inv'
<1> SUFFICES ASSUME Inv, Restart \/ Reap \/ OthersOpen PROVE Inv'
  OBVIOUS
<1>1. TypeOK /\ Running /\ Progress /\ WholeService /\ SuccessIsTrue
  BY DEF Inv
<1>2. CASE Restart
  <2>1. Start /\ UNCHANGED exe
        /\ UNCHANGED <<cmd, mine, own, apc, held, faults, result, answered, half>>
    BY <1>2 DEF Restart, command
  <2>2. TypeOK' /\ Progress' /\ WholeService' /\ Running'
    BY <1>1, <2>1, Started DEF TypeOK, Progress, WholeService, Entries
  <2>3. SuccessIsTrue'
    BY <1>1, <2>1, Started DEF SuccessIsTrue
  <2> QED
    BY <2>2, <2>3 DEF Inv
<1>3. CASE Reap
  <2>1. /\ svc # None /\ svc.marked /\ svc' = None /\ half' = FALSE /\ ~held
        /\ UNCHANGED <<gens, others, proc, image, pipe, exe, cmd, mine, own, apc, held, faults,
                       result, answered>>
    BY <1>3 DEF Reap, process
  <2>2. apc \notin {"stop", "wait", "delete", "configure", "start", "probe"}
    BY <1>1, <2>1 DEF TypeOK
  <2>3. TypeOK' /\ Progress' /\ WholeService' /\ Running'
    BY <1>1, <2>1, <2>2 DEF TypeOK, Progress, WholeService, Running
  <2>4. SuccessIsTrue'
    BY <1>1, <2>1 DEF SuccessIsTrue, Locked
  <2> QED
    BY <2>3, <2>4 DEF Inv
<1>4. CASE OthersOpen
  <2>1. UNCHANGED <<svc, gens, proc, image, pipe, exe, cmd, mine, own, apc, held, faults, result,
                    answered, half>>
    BY <1>4 DEF OthersOpen, process, command
  <2> QED
    BY <1>1, <2>1 DEF Inv, TypeOK, Progress, WholeService, Running, SuccessIsTrue, Locked
<1> QED
  BY <1>2, <1>3, <1>4

-----------------------------------------------------------------------------
(* The commands *)

\* A command that ends with an error, or is ended.
LEMMA Ended ==
    ASSUME TypeOK', Running', WholeService', apc' = "idle", result' # "ok",
           UNCHANGED <<cmd, mine, own>>
    PROVE  Inv'
<1>1. Progress' /\ SuccessIsTrue'
  BY DEF Progress, SuccessIsTrue
<1> QED
  BY <1>1 DEF Inv

\* A command that goes on has not said anything.
LEMMA GoesOn ==
    ASSUME TypeOK', Running', WholeService', Progress', apc' # "idle"
    PROVE  Inv'
BY DEF Inv, SuccessIsTrue

\* The steps that leave the service manager, the processes and the file alone.
LEMMA OnlyCommand ==
    ASSUME Inv, UNCHANGED <<manager, process, exe>>
    PROVE  /\ Running'
           /\ svc' = svc /\ gens' = gens /\ exe' = exe /\ image' = image /\ pipe' = pipe
           /\ proc' = proc
BY DEF Inv, Running, manager, process

\* A fault, an error or the end of the command, with nothing else changed.
LEMMA Stops ==
    ASSUME Inv, UNCHANGED <<manager, process, exe, cmd, mine, own>>, apc' = "idle",
           held' = FALSE, result' # "ok", faults' \in 0..MaxFaults, half' \in BOOLEAN,
           apc = "configure" \/ half => half'
    PROVE  Inv'
<1>1. /\ TypeOK /\ WholeService /\ Running'
      /\ svc' = svc /\ gens' = gens /\ exe' = exe /\ image' = image /\ pipe' = pipe
      /\ proc' = proc
  BY OnlyCommand DEF Inv
<1>2. TypeOK' /\ WholeService'
  BY <1>1 DEF TypeOK, WholeService
<1> QED
  BY <1>1, <1>2, Ended

LEMMA FaultFacts ==
    ASSUME TypeOK, Fault
    PROVE  /\ faults' \in 0..MaxFaults /\ apc' = "idle" /\ held' = FALSE /\ result' = "error"
           /\ UNCHANGED <<cmd, mine, own, answered, half>>
BY BoundsAreNat DEF TypeOK, Fault

LEMMA Begins == Inv /\ Begin => Inv'
<1> SUFFICES ASSUME Inv, Begin PROVE Inv'
  OBVIOUS
<1>1. TypeOK /\ WholeService /\ apc = "idle" /\ ~held
  BY DEF Inv, TypeOK, Begin
<1>2. /\ Running' /\ svc' = svc /\ gens' = gens /\ exe' = exe /\ image' = image /\ pipe' = pipe
      /\ proc' = proc
  BY OnlyCommand DEF Begin
<1>3. /\ cmd' \in {"install", "uninstall"} /\ mine' \in Builds /\ own' \in BOOLEAN
      /\ own' => exe = mine'
      /\ faults' = 0 /\ held' = held /\ half' = half
      /\ apc' = "open" \/ (apc' = "idle" /\ result' = "refused")
  BY DEF Begin
<1>4. 0 \in 0..MaxFaults
  BY BoundsAreNat
<1>5. TypeOK' /\ WholeService'
  BY <1>1, <1>2, <1>3, <1>4 DEF TypeOK, WholeService
<1>6. Progress' /\ SuccessIsTrue'
  BY <1>2, <1>3 DEF Progress, SuccessIsTrue
<1> QED
  BY <1>2, <1>5, <1>6 DEF Inv

\* Steps that go on to the next, or fail, and change nothing else.
LEMMA Steps ==
    ASSUME Inv, NEW step, Goto(step), step # "idle", held' \in BOOLEAN,
           UNCHANGED <<manager, process, exe>>, apc # "configure",
           held' <=> step \in {"stop", "wait", "delete", "configure", "start", "probe"},
           step \in {"stop", "wait", "delete", "gone", "copy", "create", "rmdir"},
           Progress'
    PROVE  Inv'
<1>1. /\ TypeOK /\ WholeService /\ Running'
      /\ svc' = svc /\ gens' = gens /\ exe' = exe /\ image' = image /\ pipe' = pipe
      /\ proc' = proc
  BY OnlyCommand DEF Inv
<1>2. apc' = step /\ UNCHANGED <<cmd, mine, own, faults, result, answered, half>>
  BY DEF Goto
<1>3. TypeOK' /\ WholeService'
  BY <1>1, <1>2 DEF TypeOK, WholeService
<1> QED
  BY <1>1, <1>2, <1>3, GoesOn

\* A command that fails with nothing else changed.
LEMMA Fails ==
    ASSUME Inv, Fault, UNCHANGED <<manager, process, exe>>, apc # "configure"
    PROVE  Inv'
<1>1. /\ faults' \in 0..MaxFaults /\ apc' = "idle" /\ held' = FALSE /\ result' = "error"
      /\ UNCHANGED <<cmd, mine, own, answered, half>> /\ half \in BOOLEAN
  BY FaultFacts DEF Inv, TypeOK
<1> QED
  BY <1>1, Stops

LEMMA GivesUp ==
    ASSUME Inv, Done("error"), UNCHANGED <<manager, process, exe>>, apc # "configure"
    PROVE  Inv'
<1>1. /\ apc' = "idle" /\ held' = FALSE /\ result' = "error"
      /\ UNCHANGED <<cmd, mine, own, faults, half>>
      /\ faults \in 0..MaxFaults /\ half \in BOOLEAN
  BY DEF Done, Inv, TypeOK
<1> QED
  BY <1>1, Stops

LEMMA RemoveKeeps == Inv /\ RemoveSteps => Inv'
<1> SUFFICES ASSUME Inv, RemoveSteps PROVE Inv'
  OBVIOUS
<1>1. TypeOK /\ Running /\ Progress /\ WholeService
  BY DEF Inv
<1>2. CASE OpenService
  <2>1. CASE Fault
    BY <1>2, <2>1, Fails DEF OpenService
  <2>2. CASE svc = None /\ Goto(AfterRemove) /\ UNCHANGED held
    <3>1. /\ UNCHANGED <<manager, process, exe>> /\ apc = "open" /\ held' = FALSE
          /\ AfterRemove \in {"copy", "rmdir"} /\ apc' = AfterRemove
          /\ AfterRemove = "copy" => cmd = "install"
          /\ AfterRemove = "rmdir" => cmd # "install"
      BY <1>1, <1>2, <2>2 DEF OpenService, AfterRemove, Goto, TypeOK
    <3>2. Progress'
      BY <1>1, <2>2, <3>1, OnlyCommand DEF Progress, Goto
    <3> QED
      BY <2>2, <3>1, <3>2, Steps
  <2>3. CASE svc # None /\ Goto("stop") /\ held' = TRUE
    <3>1. UNCHANGED <<manager, process, exe>> /\ apc = "open"
      BY <1>2 DEF OpenService
    <3>2. Progress'
      BY <1>1, <2>3, <3>1, OnlyCommand DEF Progress, Goto
    <3> QED
      BY <2>3, <3>1, <3>2, Steps
  <2> QED
    BY <1>2, <2>1, <2>2, <2>3 DEF OpenService
<1>3. CASE StopService
  <2>1. CASE Fault /\ UNCHANGED proc
    <3>1. UNCHANGED <<manager, process, exe>> /\ apc = "stop"
      BY <1>3, <2>1 DEF StopService, process
    <3> QED
      BY <2>1, <3>1, Fails
  <2>2. CASE Goto("wait") /\ UNCHANGED held
        /\ proc' = [proc EXCEPT ![svc.gen] =
                        IF @ \in {"run", "up"} /\ svc.state = "running" THEN "told" ELSE @]
    <3>1. /\ UNCHANGED <<svc, gens, others, image, pipe, exe>> /\ apc = "stop" /\ apc' = "wait"
          /\ UNCHANGED <<cmd, mine, own, faults, result, answered, half, held>>
          /\ svc # None
      BY <1>1, <1>3, <2>2 DEF StopService, manager, Goto, Progress
    <3>2. \A h \in Gens : proc'[h] = proc[h] \/ (proc[h] \in {"run", "up"} /\ proc'[h] = "told")
      BY <1>1, <2>2 DEF TypeOK
    <3>3. proc' \in [Gens -> Alive \cup {"none"}]
      BY <1>1, <2>2 DEF TypeOK, Alive
    <3>4. \A h \in Gens : proc'[h] \in Alive <=> proc[h] \in Alive
      BY <3>2 DEF Alive
    <3>5. TypeOK' /\ WholeService' /\ Progress'
      BY <1>1, <3>1, <3>3 DEF TypeOK, WholeService, Progress
    <3>6. Running'
      BY <1>1, <3>1, <3>4 DEF Running, TypeOK
    <3> QED
      BY <3>1, <3>5, <3>6, GoesOn
  <2> QED
    BY <1>3, <2>1, <2>2 DEF StopService
<1>4. CASE WaitStopped
  <2>1. /\ UNCHANGED <<manager, process, exe, held>> /\ apc = "wait" /\ Goto("delete") /\ held
    BY <1>1, <1>4 DEF WaitStopped, TypeOK
  <2>2. Progress'
    BY <1>1, <2>1, OnlyCommand DEF Progress, Goto
  <2> QED
    BY <2>1, <2>2, Steps
<1>5. CASE DeleteService
  <2>1. CASE Fault /\ UNCHANGED svc
    <3>1. UNCHANGED <<manager, process, exe>> /\ apc = "delete"
      BY <1>5, <2>1 DEF DeleteService, manager
    <3> QED
      BY <2>1, <3>1, Fails
  <2>2. CASE svc' = [svc EXCEPT !.marked = TRUE] /\ Goto("gone") /\ held' = FALSE
    <3>1. /\ UNCHANGED <<gens, others, proc, image, pipe, exe>> /\ apc = "delete"
          /\ apc' = "gone" /\ UNCHANGED <<cmd, mine, own, faults, result, answered, half>>
          /\ svc # None
      BY <1>1, <1>5, <2>2 DEF DeleteService, process, Goto, Progress
    <3>2. gens > 0 /\ svc' \in Entries(gens) /\ svc'.marked
      BY <1>1, <2>2, <3>1 DEF TypeOK, Entries
    <3>3. TypeOK' /\ WholeService' /\ Progress'
      BY <1>1, <2>2, <3>1, <3>2 DEF TypeOK, WholeService, Progress, Entries
    <3>4. Running'
      BY <1>1, <3>1 DEF Running
    <3> QED
      BY <3>1, <3>3, <3>4, GoesOn
  <2> QED
    BY <1>5, <2>1, <2>2 DEF DeleteService
<1>6. CASE WaitGone
  <2>1. UNCHANGED <<manager, process, exe>> /\ apc = "gone" /\ ~held
    BY <1>1, <1>6 DEF WaitGone, TypeOK
  <2>2. CASE Gone /\ Goto(AfterRemove) /\ UNCHANGED held
    <3>1. /\ AfterRemove \in {"copy", "rmdir"} /\ apc' = AfterRemove /\ svc = None
          /\ AfterRemove = "copy" => cmd = "install"
          /\ AfterRemove = "rmdir" => cmd # "install"
      BY <1>1, <2>2 DEF AfterRemove, Goto, TypeOK, Gone
    <3>2. Progress'
      <4>1. /\ svc' = svc /\ exe' = exe /\ UNCHANGED <<cmd, mine, own>>
        BY <2>1, <2>2, OnlyCommand DEF Goto
      <4> QED
        BY <1>1, <2>1, <3>1, <4>1 DEF Progress
    <3> QED
      <4>1. held' = FALSE /\ Goto(AfterRemove) /\ UNCHANGED <<manager, process, exe>>
        BY <2>1, <2>2
      <4> DEFINE step == AfterRemove
      <4>2. step \in {"copy", "rmdir"} /\ Goto(step)
        BY <3>1, <4>1
      <4> HIDE DEF step
      <4> QED
        BY <2>1, <3>2, <4>1, <4>2, Steps
  <2>3. CASE Done("error")
    BY <2>1, <2>3, GivesUp
  <2> QED
    BY <1>6, <2>2, <2>3 DEF WaitGone
<1> QED
  BY <1>2, <1>3, <1>4, <1>5, <1>6 DEF RemoveSteps

\* The file is written while nothing runs, and no service is there to run it.
LEMMA Written ==
    ASSUME Inv, ~Locked, svc = None, exe' \in Builds \cup {None, Junk},
           UNCHANGED <<manager, process>>
    PROVE  /\ Running' /\ WholeService' /\ ~Locked' /\ svc' = None /\ gens' = gens
           /\ proc' = proc /\ image' = image /\ pipe' = pipe
BY DEF Inv, Running, WholeService, Locked, manager, process

LEMMA CopyKeeps == Inv /\ (SameFile \/ CopyExe) => Inv'
<1> SUFFICES ASSUME Inv, SameFile \/ CopyExe PROVE Inv'
  OBVIOUS
<1>1. TypeOK /\ Running /\ Progress /\ WholeService /\ svc = None /\ apc = "copy"
      /\ ~held
  BY DEF Inv, Progress, SameFile, CopyExe, TypeOK
<1>2. CASE SameFile
  <2>1. UNCHANGED <<manager, process, exe, held>> /\ Goto("create") /\ exe \in Builds
    BY <1>1, <1>2 DEF SameFile, Progress, TypeOK
  <2>2. svc' = svc /\ exe' = exe /\ apc' = "create" /\ UNCHANGED <<cmd, mine, own>>
    BY <2>1, OnlyCommand DEF Goto
  <2>3. Progress'
    BY <1>1, <2>1, <2>2 DEF Progress
  <2> QED
    <3>1. UNCHANGED <<manager, process, exe>> /\ Goto("create") /\ held' = FALSE
      BY <1>1, <2>1 DEF TypeOK
    <3> QED
      BY <1>1, <2>3, <3>1, Steps
<1>3. CASE CopyExe
  <2>1. ~Locked /\ UNCHANGED <<manager, process>> /\ mine \in Builds
    BY <1>1, <1>3 DEF CopyExe, TypeOK
  <2>2. CASE exe' = mine /\ Goto("create") /\ UNCHANGED held
    <3>1. /\ Running' /\ WholeService' /\ svc' = None /\ gens' = gens
          /\ proc' = proc /\ image' = image /\ pipe' = pipe
      BY <1>1, <2>1, <2>2, Written
    <3>2. apc' = "create" /\ UNCHANGED <<cmd, mine, own, faults, result, answered, half, held>>
      BY <2>2 DEF Goto
    <3>3. TypeOK' /\ Progress'
      BY <1>1, <2>1, <2>2, <3>1, <3>2 DEF TypeOK, Progress
    <3> QED
      BY <3>1, <3>2, <3>3, GoesOn
  <2>3. CASE exe' \in {exe, Junk} /\ Fault
    <3>1. /\ faults' \in 0..MaxFaults /\ apc' = "idle" /\ held' = FALSE /\ result' = "error"
          /\ UNCHANGED <<cmd, mine, own, answered, half>>
      BY <1>1, <2>3, FaultFacts
    <3>2. exe' \in Builds \cup {None, Junk}
      BY <1>1, <2>3 DEF TypeOK
    <3>3. /\ Running' /\ WholeService' /\ svc' = None /\ gens' = gens
          /\ proc' = proc /\ image' = image /\ pipe' = pipe
      BY <1>1, <2>1, <3>2, Written
    <3>4. TypeOK'
      BY <1>1, <3>1, <3>2, <3>3 DEF TypeOK
    <3> QED
      BY <3>1, <3>3, <3>4, Ended
  <2> QED
    BY <1>3, <2>2, <2>3 DEF CopyExe
<1> QED
  BY <1>2, <1>3

LEMMA CreateKeeps == Inv /\ (CreateService \/ Configure) => Inv'
<1> SUFFICES ASSUME Inv, CreateService \/ Configure PROVE Inv'
  OBVIOUS
<1>1. TypeOK /\ Running /\ Progress /\ WholeService
  BY DEF Inv
<1>2. CASE CreateService
  <2>1. apc = "create" /\ svc = None /\ exe \in Builds /\ cmd = "install" /\ gens < MaxGen
        /\ UNCHANGED <<others, proc, image, pipe, exe>>
    BY <1>1, <1>2 DEF CreateService, Progress, process
  <2>2. CASE Fault /\ UNCHANGED <<svc, gens>>
    <3>1. UNCHANGED <<manager, process, exe>>
      BY <2>1, <2>2 DEF manager, process
    <3> QED
      BY <2>1, <2>2, <3>1, Fails
  <2>3. CASE /\ gens' = gens + 1
             /\ svc' = [gen |-> gens + 1, conf |-> FALSE, marked |-> FALSE, state |-> "stopped"]
             /\ Goto("configure") /\ held' = TRUE
    <3>1. apc' = "configure" /\ UNCHANGED <<cmd, mine, own, faults, result, answered, half>>
      BY <2>3 DEF Goto
    <3>2. gens' \in 1..MaxGen
      BY <1>1, <2>1, <2>3, BoundsAreNat DEF TypeOK
    <3>3. svc' \in Entries(gens') /\ svc' # None /\ ~svc'.marked
      <4>1. svc' \in Entries(gens')
        BY <2>3 DEF Entries
      <4> QED
        BY <2>3, <3>2, <4>1, NoneIsNoEntry
    <3>4. TypeOK' /\ WholeService' /\ Progress'
      BY <1>1, <2>1, <2>3, <3>1, <3>2, <3>3 DEF TypeOK, WholeService, Progress, Entries
    <3>5. Running'
      BY <1>1, <2>1 DEF Running
    <3> QED
      BY <3>1, <3>4, <3>5, GoesOn
  <2> QED
    BY <1>2, <2>2, <2>3 DEF CreateService
<1>3. CASE Configure
  <2>1. /\ apc = "configure" /\ svc # None /\ ~svc.marked /\ cmd = "install" /\ held
        /\ UNCHANGED <<gens, others, proc, image, pipe, exe>>
    BY <1>1, <1>3 DEF Configure, Progress, TypeOK, process
  <2>2. gens \in 1..MaxGen /\ svc \in Entries(gens) /\ None \notin Entries(gens)
    BY <1>1, <2>1, NoneIsNoEntry, BoundsAreNat DEF TypeOK
  <2>3. Running'
    BY <1>1, <2>1 DEF Running
  <2>4. CASE svc' = [svc EXCEPT !.conf = TRUE] /\ Goto("start") /\ UNCHANGED held
    <3>1. apc' = "start" /\ UNCHANGED <<cmd, mine, own, faults, result, answered, half>>
      BY <2>4 DEF Goto
    <3>2. svc' \in Entries(gens) /\ svc'.conf /\ ~svc'.marked
      BY <2>1, <2>2, <2>4 DEF Entries
    <3>3. TypeOK' /\ WholeService' /\ Progress'
      BY <1>1, <2>1, <2>2, <2>4, <3>1, <3>2 DEF TypeOK, WholeService, Progress, Entries
    <3> QED
      BY <2>3, <3>1, <3>3, GoesOn
  <2>5. CASE svc' = HalfDeleted /\ Fault
    <3>1. /\ faults' \in 0..MaxFaults /\ apc' = "idle" /\ held' = FALSE /\ result' = "error"
          /\ UNCHANGED <<cmd, mine, own, answered, half>>
      BY <1>1, <2>5, FaultFacts
    <3>2. svc' \in Entries(gens) /\ svc'.marked
      BY <2>1, <2>2, <2>5 DEF HalfDeleted, Entries
    <3>3. TypeOK' /\ WholeService'
      BY <1>1, <2>1, <2>2, <3>1, <3>2 DEF TypeOK, WholeService, Entries
    <3> QED
      BY <2>3, <3>1, <3>3, Ended
  <2>6. CASE StaysHalf
    <3>1. /\ faults' \in 0..MaxFaults /\ apc' = "idle" /\ held' = FALSE /\ result' = "error"
          /\ half' = TRUE /\ svc' = svc /\ UNCHANGED <<cmd, mine, own, answered>>
      BY <1>1, <2>6, BoundsAreNat DEF StaysHalf, TypeOK
    <3>2. TypeOK' /\ WholeService'
      BY <1>1, <2>1, <3>1 DEF TypeOK, WholeService
    <3> QED
      BY <2>3, <3>1, <3>2, Ended
  <2> QED
    BY <1>3, <2>4, <2>5, <2>6 DEF Configure
<1> QED
  BY <1>2, <1>3

LEMMA StartKeeps == Inv /\ (StartService \/ Probe) => Inv'
<1> SUFFICES ASSUME Inv, StartService \/ Probe PROVE Inv'
  OBVIOUS
<1>1. TypeOK /\ Running /\ Progress /\ WholeService
  BY DEF Inv
<1>2. CASE StartService
  <2>1. apc = "start" /\ svc # None /\ ~svc.marked /\ cmd = "install" /\ held /\ exe' = exe
    BY <1>1, <1>2 DEF StartService, Progress, TypeOK
  <2>2. CASE Fault /\ UNCHANGED <<manager, process>>
    <3>1. UNCHANGED <<manager, process, exe>>
      BY <2>1, <2>2
    <3> QED
      BY <2>1, <2>2, <3>1, Fails
  <2>3. CASE Start /\ Goto("probe") /\ UNCHANGED held
    <3>1. apc' = "probe" /\ UNCHANGED <<cmd, mine, own, faults, result, answered, half>>
      BY <2>3 DEF Goto
    <3>2. TypeOK' /\ WholeService' /\ Progress' /\ Running'
      BY <1>1, <2>1, <2>3, <3>1, Started DEF TypeOK, WholeService, Progress, Entries
    <3> QED
      BY <3>1, <3>2, GoesOn
  <2> QED
    BY <1>2, <2>2, <2>3 DEF StartService
<1>3. CASE Probe
  <2>1. UNCHANGED <<manager, process, exe>> /\ apc = "probe" /\ cmd = "install"
    BY <1>1, <1>3 DEF Probe, Progress
  <2>2. CASE Done("error")
    BY <2>1, <2>2, GivesUp
  <2>3. CASE /\ Answers /\ apc' = "idle" /\ held' = FALSE /\ result' = "ok"
             /\ answered' = [gen |-> pipe, build |-> image[pipe]]
             /\ UNCHANGED <<cmd, mine, own, faults, half>>
    <3>1. /\ Running' /\ svc' = svc /\ gens' = gens /\ exe' = exe /\ image' = image
          /\ pipe' = pipe /\ proc' = proc
      BY <2>1, OnlyCommand
    <3>2. pipe # 0 /\ svc # None /\ svc.gen = pipe
      BY <2>3 DEF Answers
    <3>3. pipe = gens
      BY <1>1, <3>2, EntryFacts
    <3>4. image[pipe] = exe
      BY <1>1, <3>2 DEF Running, TypeOK
    <3>5. SuccessIsTrue'
      BY <2>1, <2>3, <3>1, <3>3, <3>4 DEF SuccessIsTrue
    <3>6. TypeOK' /\ WholeService' /\ Progress'
      BY <1>1, <2>1, <2>3, <3>1 DEF TypeOK, WholeService, Progress
    <3> QED
      BY <3>1, <3>5, <3>6 DEF Inv
  <2> QED
    BY <1>3, <2>2, <2>3 DEF Probe
<1> QED
  BY <1>2, <1>3

LEMMA UninstallKeeps == Inv /\ (RemoveDir \/ RetryFails) => Inv'
<1> SUFFICES ASSUME Inv, RemoveDir \/ RetryFails PROVE Inv'
  OBVIOUS
<1>1. TypeOK /\ Running /\ Progress /\ WholeService
  BY DEF Inv
<1>2. CASE RetryFails
  <2>1. UNCHANGED <<manager, process, exe>> /\ Done("error") /\ apc # "configure"
    BY <1>2 DEF RetryFails
  <2> QED
    BY <2>1, GivesUp
<1>3. CASE RemoveDir
  <2>1. /\ ~Locked /\ UNCHANGED <<manager, process>> /\ apc = "rmdir" /\ svc = None
        /\ cmd # "install"
    BY <1>1, <1>3 DEF RemoveDir, Progress
  <2>2. exe' \in Builds \cup {None, Junk}
    BY <1>1, <1>3 DEF RemoveDir, TypeOK
  <2>3. /\ Running' /\ WholeService' /\ ~Locked' /\ svc' = None /\ gens' = gens
        /\ proc' = proc /\ image' = image /\ pipe' = pipe
    BY <2>1, <2>2, Written
  <2>4. CASE exe' = None /\ Done("ok")
    <3>1. /\ apc' = "idle" /\ held' = FALSE /\ result' = "ok"
          /\ UNCHANGED <<cmd, mine, own, faults, answered, half>>
      BY <2>4 DEF Done
    <3>2. TypeOK' /\ Progress' /\ SuccessIsTrue'
      BY <1>1, <2>1, <2>2, <2>3, <2>4, <3>1 DEF TypeOK, Progress, SuccessIsTrue
    <3> QED
      BY <2>3, <3>2 DEF Inv
  <2>5. CASE Fault
    <3>1. /\ faults' \in 0..MaxFaults /\ apc' = "idle" /\ held' = FALSE /\ result' = "error"
          /\ UNCHANGED <<cmd, mine, own, answered, half>>
      BY <1>1, <2>5, FaultFacts
    <3>2. TypeOK'
      BY <1>1, <2>2, <2>3, <3>1 DEF TypeOK
    <3> QED
      BY <2>3, <3>1, <3>2, Ended
  <2> QED
    BY <1>3, <2>4, <2>5 DEF RemoveDir
<1> QED
  BY <1>2, <1>3

LEMMA DeathKeeps == Inv /\ CommandDies => Inv'
<1> SUFFICES ASSUME Inv, CommandDies PROVE Inv'
  OBVIOUS
<1>1. /\ UNCHANGED <<manager, process, exe, cmd, mine, own, faults>> /\ apc' = "idle"
      /\ held' = FALSE /\ result' = "died" /\ half' = (half \/ apc = "configure")
  BY DEF CommandDies
<1>2. faults' \in 0..MaxFaults /\ half' \in BOOLEAN
  BY <1>1 DEF Inv, TypeOK
<1> QED
  BY <1>1, <1>2, Stops

-----------------------------------------------------------------------------
(* The theorems *)

LEMMA Invariance == Spec => []Inv
<1>1. Init => Inv
  <2> SUFFICES ASSUME Init PROVE Inv
    OBVIOUS
  <2>1. /\ svc = None /\ gens = 0 /\ proc = [g \in Gens |-> "none"]
        /\ image = [g \in Gens |-> None] /\ pipe = 0 /\ exe = None /\ cmd = None
        /\ mine \in Builds /\ own = FALSE /\ apc = "idle" /\ held = FALSE /\ faults = 0
        /\ half = FALSE
    BY DEF Init
  <2>2. TypeOK
    <3>1. 0 \in 0..MaxGen /\ 0 \in 0..MaxFaults
      BY BoundsAreNat
    <3>2. proc \in [Gens -> Alive \cup {"none"}] /\ image \in [Gens -> Builds \cup {None}]
      BY <2>1
    <3> QED
      BY <2>1, <3>1, <3>2 DEF TypeOK
  <2>3. Running
    BY <2>1 DEF Running, Alive
  <2>4. Progress /\ WholeService
    BY <2>1 DEF Progress, WholeService
  <2>5. ~Locked
    BY <2>1 DEF Locked, Alive
  <2>6. cmd # "install"
    BY <2>1, NoneIsNoCommand
  <2> QED
    BY <2>1, <2>2, <2>3, <2>4, <2>5, <2>6 DEF Inv, SuccessIsTrue
<1>2. Inv /\ Next => Inv'
  BY Begins, RemoveKeeps, CopyKeeps, CreateKeeps, StartKeeps, UninstallKeeps, DeathKeeps,
     ManagerSteps, ProcessSteps
  DEF Next, InstallSteps, UninstallSteps
<1>3. Inv /\ UNCHANGED vars => Inv'
  BY DEF Inv, TypeOK, Running, Progress, WholeService, SuccessIsTrue, Locked, vars, manager,
         process, command
<1> QED
  BY <1>1, <1>2, <1>3, PTL DEF Spec

\* Only the last service that was created can have an entry, and a command has
\* it open just while it is at a step that uses it.
THEOREM TypeCorrect == Spec => []TypeOK
<1>1. Inv => TypeOK
  BY DEF Inv
<1> QED
  BY <1>1, Invariance, PTL

\* An install that says so was answered by the service it created, running the
\* build it copied; an uninstall that says so left nothing: however many calls
\* fail before, and whatever the processes of the old services still do.
THEOREM SuccessHolds == Spec => []SuccessIsTrue
<1>1. Inv => SuccessIsTrue
  BY DEF Inv
<1> QED
  BY <1>1, Invariance, PTL

\* A service that can be started has a whole file, at whichever step a command
\* failed or was ended, and its configuration, but where configure was ended or
\* the deletion after it failed too.
THEOREM ServiceIsWhole == Spec => []NoHalfService
<1>1. Inv => NoHalfService
  BY DEF Inv, WholeService, NoHalfService
<1> QED
  BY <1>1, Invariance, PTL

=============================================================================
