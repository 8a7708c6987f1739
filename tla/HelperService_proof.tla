-------------------------- MODULE HelperService_proof --------------------------
(***************************************************************************)
(* Safety of the self-updating service, for any number of sessions and any *)
(* number of releases; and, at the end, of the pipe that it listens on.    *)
(***************************************************************************)
EXTENDS HelperServiceInv, HelperPipe, FiniteSetTheorems, TLAPS

CountedSessions == {s \in Sessions : pc[s] \in Counted}

\* A signature that verifies some bytes names the version of those bytes.
LEMMA SignatureFacts ==
  ASSUME NEW s \in Signatures
  PROVE  /\ s.ver \in Versions \cup {None}
         /\ s.signs \in {s.ver, None}
BY DEF Signatures

\* verify_update's Ok means: a release, and newer than the running build.
LEMMA VerifiedIsNewer ==
  ASSUME NEW s \in Signatures, NEW bytes \in Versions \cup {Junk}, Verifies(bytes, s)
  PROVE  bytes \in Versions /\ bytes > running
<1>1. bytes \in {s.ver, None} /\ s.ver \in Versions
  BY SignatureFacts DEF Verifies
<1> QED
  BY <1>1, MarkersAreNoVersions, MarkersDistinct DEF Verifies, Versions

\* A session inside its Busy is counted.
LEMMA CountedIsPositive ==
  ASSUME ActiveCounts, NEW s \in Sessions, pc[s] \in Counted
  PROVE  ACTIVE \in Nat /\ ACTIVE > 0
<1>1. IsFiniteSet(CountedSessions)
  BY SessionsFinite, FS_Subset DEF CountedSessions
<1>2. CountedSessions # {}
  BY DEF CountedSessions
<1> QED
  BY <1>1, <1>2, FS_CardinalityType, FS_EmptySet DEF ActiveCounts, CountedSessions

\* A freshly installed service has the right types.
LEMMA TypeInit == Init => TypeOK
<1> SUFFICES ASSUME Init PROVE TypeOK
  OBVIOUS
<1>1. pc \in [Threads -> {"idle", "sleep", "accepted", "hook", "wait", "exit"} \cup Counted]
  BY DEF Init, Home
<1> QED
  BY <1>1 DEF Init, TypeOK, Live

\* Every variable keeps its type, through every step of the updater, every
\* session and every end of the process.
LEMMA TypeStep ==
  ASSUME TypeOK, ActiveCounts, FetchInv, BodyInv, NewInv, [Next]_vars
  PROVE  TypeOK'
<1> USE DEF TypeOK, Goto
<1>0. ASSUME NEW state \in Live \cup {"exited", "failed", "stopped", "nostart"}, EndProcess(state)
      PROVE  TypeOK'
  BY <1>0 DEF EndProcess, Home, files
<1>1. CASE ProcessStep
  <2>1. CASE FailureAction \/ ManualStart
    BY <2>1 DEF FailureAction, ManualStart, Launch, files, statics, threads, locals, Live
  <2>2. CASE CleanOld \/ CleanNew \/ Listen
    BY <2>2 DEF CleanOld, CleanNew, Listen, files, statics, threads, locals, Live
  <2>3. CASE ListenFails \/ Crash \/ Control
    BY <2>3, <1>0 DEF ListenFails, Crash, Control
  <2> QED
    BY <1>1, <2>1, <2>2, <2>3 DEF ProcessStep
<1>2. CASE CheckerWakes
  BY ZenonT(60), <1>2 DEF CheckerWakes, files, statics, locals, Counted
<1>3. ASSUME NEW s \in Sessions, SessionStep(s)
      PROVE  TypeOK'
  <2> s \in Threads
    BY DEF Threads
  <2>1. CASE Accept(s) \/ AskUpdate(s)
    BY <2>1 DEF Accept, AskUpdate, files, statics, locals, Counted
  <2>2. CASE Enter(s)
    BY <2>2 DEF Enter, files, statics, locals, Counted
  <2>3. CASE SessionEnds(s)
    <3>1. ACTIVE - 1 \in Nat
      BY <2>3, CountedIsPositive DEF SessionEnds, Counted
    <3> QED
      BY <2>3, <3>1 DEF SessionEnds, files, statics, locals, Counted
  <2>4. CASE Reply(s)
    <3>1. ACTIVE - 1 \in Nat
      BY <2>4, CountedIsPositive DEF Reply, Counted
    <3> QED
      BY <2>4, <3>1 DEF Reply, files, statics, locals, Counted
  <2> QED
    BY <1>3, <2>1, <2>2, <2>3, <2>4 DEF SessionStep
<1>4. ASSUME NEW t \in Threads, NEW r \in Versions \cup {None, UpToDate, Failed}, Return(t, r)
      PROVE  /\ lock' \in Threads \cup {None}
             /\ sig' \in [Threads -> Signatures \cup {None}]
             /\ body' \in [Threads -> Versions \cup {None}]
             /\ outcome' \in [Threads -> Versions \cup {None, UpToDate, Failed}]
             /\ pc' \in [Threads -> {"idle", "sleep", "accepted", "hook", "wait", "exit"}
                                      \cup Counted]
  BY <1>4 DEF Return, Counted
<1>5. ASSUME NEW t \in Threads, CheckStep(t)
      PROVE  TypeOK'
  <2>1. CASE LockInstalled(t)
    BY <2>1, <1>4 DEF LockInstalled, files, statics, locals, Counted, Critical
  <2>2. CASE FetchSig(t)
    BY <2>2, <1>4 DEF FetchSig, files, statics, locals, Counted, Critical
  <2>3. CASE FetchExe(t)
    <3>1. sig[t] \in Signatures
      BY <2>3 DEF FetchExe, FetchInv
    <3>2. ASSUME NEW bytes \in Versions \cup {Junk}, Verifies(bytes, sig[t])
          PROVE  bytes \in Versions
      BY <3>1, <3>2, VerifiedIsNewer
    <3> QED
      BY <2>3, <1>4, <3>2 DEF FetchExe, files, statics, locals, Counted, Critical
  <2>4. CASE CreateNew(t) \/ WriteNew(t)
    <3>1. pc[t] = "write" => body[t] \in Versions
      BY DEF BodyInv
    <3> QED
      BY <2>4, <1>4, <3>1 DEF CreateNew, WriteNew, files, statics, locals, Counted, Critical
  <2>5. CASE RemoveOld(t)
    BY <2>5, <1>4 DEF RemoveOld, files, statics, locals, Counted, Critical
  <2>6. CASE MoveExe(t)
    BY <2>6, <1>4 DEF MoveExe, files, statics, locals, Counted, Critical
  <2>7. CASE MoveNew(t)
    <3>1. new = body[t] /\ body[t] \in Versions
      BY <2>7 DEF MoveNew, NewInv, BodyInv
    <3> QED
      BY <2>7, <1>4, <3>1 DEF MoveNew, files, statics, locals, Counted, Critical
  <2>8. CASE Rollback(t)
    BY <2>8, <1>4 DEF Rollback, files, statics, locals, Counted, Critical
  <2>9. CASE Record(t)
    BY <2>9, <1>4 DEF Record, files, statics, locals, Counted, Critical
  <2> QED
    BY <1>5, <2>1, <2>2, <2>3, <2>4, <2>5, <2>6, <2>7, <2>8, <2>9 DEF CheckStep
<1>6. ASSUME NEW t \in Threads, RestartStep(t)
      PROVE  TypeOK'
  <2>1. CASE Hook(t)
    BY <2>1 DEF Hook, files, statics, locals, Home
  <2>2. CASE StopWaiting(t)
    BY <2>2 DEF StopWaiting, files, statics, locals
  <2>3. CASE Exit(t)
    BY <2>3, <1>0 DEF Exit
  <2> QED
    BY <1>6, <2>1, <2>2, <2>3 DEF RestartStep
<1>7. CASE UNCHANGED vars
  BY <1>7 DEF vars, files, statics, threads, locals
<1> QED
  BY <1>1, <1>2, <1>3, <1>5, <1>6, <1>7 DEF Next

-----------------------------------------------------------------------------
\* ACTIVE counts the sessions inside their Busy, through every step.
LEMMA ActiveInit == Init => ActiveCounts
<1> SUFFICES ASSUME Init PROVE ActiveCounts
  OBVIOUS
<1>1. CountedSessions = {}
  BY CheckerDistinct DEF Init, Home, CountedSessions, Counted, Critical, Threads
<1> QED
  BY <1>1, FS_EmptySet DEF Init, ActiveCounts, CountedSessions

\* Enter adds exactly the session that becomes counted, every end of a counted
\* session takes exactly that one away, and the end of the process takes all.
LEMMA ActiveStep ==
  ASSUME TypeOK, ActiveCounts, [Next]_vars
  PROVE  ActiveCounts'
<1>1. ACTIVE = Cardinality(CountedSessions) /\ IsFiniteSet(CountedSessions)
  BY SessionsFinite, FS_Subset DEF ActiveCounts, CountedSessions
<1>2. SUFFICES ACTIVE' = Cardinality(CountedSessions')
  BY DEF ActiveCounts, CountedSessions
<1> DEFINE Kept == UNCHANGED ACTIVE /\ CountedSessions' = CountedSessions
<1>3. ASSUME Kept PROVE ACTIVE' = Cardinality(CountedSessions')
  BY <1>1, <1>3
<1> USE DEF Goto
<1>4. ASSUME NEW state, EndProcess(state) PROVE ACTIVE' = Cardinality(CountedSessions')
  <2>1. CountedSessions' = {}
    BY <1>4, CheckerDistinct DEF EndProcess, Home, CountedSessions, Counted, Critical, Threads
  <2> QED
    BY <1>4, <2>1, FS_EmptySet DEF EndProcess
<1>S. ASSUME NEW t \in Threads, NEW l, pc' = [pc EXCEPT ![t] = l]
      PROVE  /\ t = Checker => CountedSessions' = CountedSessions
             /\ l \in Counted /\ pc[t] \in Counted => CountedSessions' = CountedSessions
             /\ l \notin Counted => CountedSessions' = CountedSessions \ {t}
  <2>1. \A u \in Sessions : pc'[u] = IF u = t THEN l ELSE pc[u]
    BY <1>S DEF TypeOK, Threads
  <2>2. \A u \in Sessions : u \in CountedSessions <=> pc[u] \in Counted
    BY DEF CountedSessions
  <2>3. \A u \in Sessions : u \in CountedSessions' <=> pc'[u] \in Counted'
    BY DEF CountedSessions
  <2>4. CountedSessions \subseteq Sessions /\ CountedSessions' \subseteq Sessions
    BY DEF CountedSessions
  <2>5. Counted' = Counted
    BY DEF Counted, Critical
  <2> QED
    BY <2>1, <2>2, <2>3, <2>4, <2>5, CheckerDistinct
<1>5. CASE ProcessStep
  <2>1. CASE FailureAction \/ ManualStart
    <3>1. Kept
      BY <2>1 DEF FailureAction, ManualStart, Launch, statics, threads, CountedSessions
    <3> QED
      BY <1>3, <3>1
  <2>2. CASE CleanOld \/ CleanNew \/ Listen
    <3>1. Kept
      BY <2>2 DEF CleanOld, CleanNew, Listen, statics, threads, CountedSessions
    <3> QED
      BY <1>3, <3>1
  <2>3. CASE ListenFails \/ Crash \/ Control
    BY <2>3, <1>4 DEF ListenFails, Crash, Control
  <2> QED
    BY <1>5, <2>1, <2>2, <2>3 DEF ProcessStep
<1>6. CASE CheckerWakes
  <2>1. Kept
    BY <1>6, <1>S DEF CheckerWakes, statics, Threads
  <2> QED
    BY <1>3, <2>1
<1>7. ASSUME NEW s \in Sessions, SessionStep(s)
      PROVE  ACTIVE' = Cardinality(CountedSessions')
  <2>0. s \in Threads
    BY DEF Threads
  <2>1. CASE Accept(s) \/ AskUpdate(s)
    <3>1. {"serving", "lock"} \subseteq Counted /\ {"idle", "accepted"} \cap Counted = {}
      BY DEF Counted, Critical
    <3>2. CASE Accept(s)
      <4>1. pc[s] \notin Counted /\ CountedSessions' = CountedSessions \ {s}
        BY <1>S, <2>0, <3>1, <3>2 DEF Accept
      <4>2. CountedSessions \ {s} = CountedSessions
        BY <4>1 DEF CountedSessions
      <4> QED
        BY <1>3, <3>2, <4>1, <4>2 DEF Accept, statics
    <3>3. CASE AskUpdate(s)
      <4>1. CountedSessions' = CountedSessions
        BY <1>S, <2>0, <3>1, <3>3 DEF AskUpdate
      <4> QED
        BY <1>3, <3>3, <4>1 DEF AskUpdate, statics
    <3> QED
      BY <2>1, <3>2, <3>3
  <2>2. CASE Enter(s)
    <3>1. CountedSessions' = CountedSessions \cup {s} /\ s \notin CountedSessions
      BY <2>0, <2>2 DEF Enter, CountedSessions, TypeOK, Counted, Critical
    <3> QED
      BY <1>1, <2>2, <3>1, FS_AddElement DEF Enter
  <2>3. CASE SessionEnds(s)
    <3>1. s \in CountedSessions
      BY <2>3 DEF SessionEnds, CountedSessions, Counted
    <3>2. "idle" \notin Counted
      BY DEF Counted, Critical
    <3>3. CountedSessions' = CountedSessions \ {s}
      BY <1>S, <2>0, <2>3, <3>2 DEF SessionEnds
    <3> QED
      BY <1>1, <2>3, <3>1, <3>3, FS_RemoveElement DEF SessionEnds
  <2>4. CASE Reply(s)
    <3>1. s \in CountedSessions
      BY <2>4 DEF Reply, CountedSessions, Counted
    <3>2. CASE Kept
      BY <1>3, <3>2
    <3>3. CASE ACTIVE' = ACTIVE - 1 /\ CountedSessions' = CountedSessions \ {s}
      BY <1>1, <3>1, <3>3, FS_RemoveElement
    <3>4. Kept \/ (ACTIVE' = ACTIVE - 1 /\ CountedSessions' = CountedSessions \ {s})
      <4>1. {"idle", "hook"} \cap Counted = {} /\ {"serving", "reply"} \subseteq Counted
        BY DEF Counted, Critical
      <4>2. pc[s] = "reply" /\ s \in Threads
        BY <2>0, <2>4 DEF Reply
      <4>3. CASE pc' = [pc EXCEPT ![s] = "serving"] /\ UNCHANGED ACTIVE
        BY <1>S, <4>1, <4>2, <4>3
      <4>4. CASE pc' = [pc EXCEPT ![s] = "hook"] /\ ACTIVE' = ACTIVE - 1
        BY <1>S, <4>1, <4>2, <4>4
      <4>5. CASE pc' = [pc EXCEPT ![s] = "idle"] /\ ACTIVE' = ACTIVE - 1
        BY <1>S, <4>1, <4>2, <4>5
      <4> QED
        BY <2>4, <4>3, <4>4, <4>5 DEF Reply
    <3> QED
      BY <3>2, <3>3, <3>4
  <2> QED
    BY <1>7, <2>1, <2>2, <2>3, <2>4 DEF SessionStep
<1>8. ASSUME NEW t \in Threads, CheckStep(t)
      PROVE  ACTIVE' = Cardinality(CountedSessions')
  <2> USE DEF Return, statics, TypeOK, Counted, Critical
  <2>1. UNCHANGED ACTIVE
    BY <1>8 DEF CheckStep, LockInstalled, FetchSig, FetchExe, CreateNew, WriteNew, RemoveOld,
      MoveExe, MoveNew, Rollback, Record
  <2>2. pc[t] \in Counted
    BY <1>8 DEF CheckStep, LockInstalled, FetchSig, FetchExe, CreateNew, WriteNew, RemoveOld,
      MoveExe, MoveNew, Rollback, Record
  <2>3. t # Checker => \E l \in Counted : pc' = [pc EXCEPT ![t] = l]
    BY <1>8 DEF CheckStep, LockInstalled, FetchSig, FetchExe, CreateNew, WriteNew, RemoveOld,
      MoveExe, MoveNew, Rollback, Record
  <2>4. t = Checker => \E l : pc' = [pc EXCEPT ![t] = l]
    BY <1>8 DEF CheckStep, LockInstalled, FetchSig, FetchExe, CreateNew, WriteNew, RemoveOld,
      MoveExe, MoveNew, Rollback, Record
  <2>5. CountedSessions' = CountedSessions
    BY <1>S, <2>2, <2>3, <2>4
  <2> QED
    BY <1>3, <2>1, <2>5
<1>9. ASSUME NEW t \in Threads, RestartStep(t)
      PROVE  ACTIVE' = Cardinality(CountedSessions')
  <2>1. CASE Hook(t) \/ StopWaiting(t)
    <3>1. \E l \in {"idle", "sleep", "wait", "exit"} : pc' = [pc EXCEPT ![t] = l]
      BY <2>1 DEF Hook, StopWaiting, Home
    <3>2. pc[t] \notin Counted
      BY <2>1 DEF Hook, StopWaiting, Counted, Critical
    <3>3. {"idle", "sleep", "wait", "exit"} \cap Counted = {}
      BY DEF Counted, Critical
    <3>4. CountedSessions' = CountedSessions \ {t}
      BY <1>S, <3>1, <3>2, <3>3 DEF CountedSessions
    <3>5. CountedSessions \ {t} = CountedSessions
      BY <3>2 DEF CountedSessions
    <3>6. Kept
      BY <2>1, <3>4, <3>5 DEF Hook, StopWaiting
    <3> QED
      BY <1>3, <3>6
  <2>2. CASE Exit(t)
    BY <2>2, <1>4 DEF Exit
  <2> QED
    BY <1>9, <2>1, <2>2 DEF RestartStep
<1>10. CASE UNCHANGED vars
  BY <1>3, <1>10 DEF vars, statics, threads, CountedSessions
<1> QED
  BY <1>5, <1>6, <1>7, <1>8, <1>9, <1>10 DEF Next

-----------------------------------------------------------------------------
\* A freshly installed service satisfies the strengthened invariant.
LEMMA InvInit == Init => Inv
<1> SUFFICES ASSUME Init PROVE Inv
  OBVIOUS
<1>1. \A t \in Threads : pc[t] = Home(t) /\ outcome[t] = None /\ lock # t
  BY NoneIsNoThread DEF Init, Threads
<1>2. \A t \in Threads :
        pc[t] \notin Critical \cup {"hook", "wait", "exit"} /\ pc[t] \in {"idle", "sleep"}
  BY <1>1 DEF Home, Critical
<1>3. None \notin Versions /\ exe \in Versions /\ exe # NoFile
  BY MarkersAreNoVersions DEF Init, Versions
<1>4. exe >= running /\ exe = running
  BY <1>3 DEF Init, Versions
<1> QED
  BY <1>1, <1>2, <1>3, <1>4 DEF Init, Inv, LockInv, QuietInv, ImageInv, InstalledInv,
    OneUpdateInv, FetchInv, BodyInv, NewInv, SwapInv, OutcomeInv, HookInv, ExeNeverOlder,
    SomeBuildSurvives, RestartRunsNewer, Critical

\* The strengthened invariant survives every step.
LEMMA InvStep ==
  ASSUME TypeOK, Inv, [Next]_vars
  PROVE  Inv'
<1> USE NoneIsNoThread, MarkersAreNoVersions, MarkersDistinct, CheckerDistinct
<1> USE DEF Inv, LockInv, QuietInv, ImageInv, InstalledInv, OneUpdateInv, FetchInv, BodyInv,
      NewInv, SwapInv, OutcomeInv, HookInv, ExeNeverOlder, SomeBuildSurvives, RestartRunsNewer,
      TypeOK, Goto, Critical, Live, Versions
<1>0. ASSUME NEW state \in {"exited", "failed", "stopped"}, EndProcess(state),
             state = "exited" => exe # NoFile /\ exe > running
      PROVE  Inv'
  <2>1. \A t \in Threads : pc'[t] = Home(t) /\ outcome'[t] = None /\ lock' # t
    BY <1>0 DEF EndProcess, Threads
  <2>2. \A t \in Threads : pc'[t] \in {"idle", "sleep"}
    BY <2>1 DEF Home
  <2> QED
    BY <1>0, <2>1, <2>2 DEF EndProcess, files
<1>1. CASE ProcessStep
  <2>1. CASE FailureAction \/ ManualStart
    <3>1. proc # "up" /\ Launch
      BY <2>1 DEF FailureAction, ManualStart
    <3>2. UNCHANGED <<files, statics, pc, locals>>
      BY <3>1 DEF Launch, threads
    <3>3. CASE exe = NoFile
      BY <3>1, <3>2, <3>3 DEF Launch, files, statics, locals
    <3>4. CASE exe # NoFile
      <4>1. exe \in Versions /\ proc' = "clean_old" /\ running' = exe /\ image' = "exe"
        BY <3>1, <3>4 DEF Launch
      <4>2. exe >= exe
        BY <4>1
      <4>3. \A t \in Threads : pc[t] \in {"idle", "sleep"} /\ outcome[t] = None
        BY <3>1 DEF Home
      <4> QED
        BY <3>1, <3>2, <4>1, <4>2, <4>3 DEF files, statics, locals
    <3> QED
      BY <3>3, <3>4
  <2>2. CASE CleanOld
    BY <2>2 DEF CleanOld, statics, threads, locals
  <2>3. CASE CleanNew
    BY <2>3 DEF CleanNew, statics, threads, locals, Home
  <2>4. CASE Listen
    BY <2>4 DEF Listen, files, statics, threads, locals, Home
  <2>5. CASE ListenFails \/ Crash \/ Control
    BY <2>5, <1>0 DEF ListenFails, Crash, Control
  <2> QED
    BY <1>1, <2>1, <2>2, <2>3, <2>4, <2>5 DEF ProcessStep
<1>2. CASE CheckerWakes
  BY <1>2 DEF CheckerWakes, files, statics, locals
<1>3. ASSUME NEW s \in Sessions, SessionStep(s)
      PROVE  Inv'
  <2> s \in Threads
    BY DEF Threads
  <2>1. CASE Accept(s)
    BY <2>1 DEF Accept, files, statics, locals
  <2>2. CASE AskUpdate(s)
    BY <2>2 DEF AskUpdate, files, statics, locals, Home
  <2>3. CASE Enter(s)
    BY <2>3 DEF Enter, files, statics, locals, Home
  <2>4. CASE SessionEnds(s)
    BY <2>4 DEF SessionEnds, files, statics, locals, Home
  <2>5. CASE Reply(s)
    BY <2>5 DEF Reply, files, statics, locals, Home
  <2> QED
    BY <1>3, <2>1, <2>2, <2>3, <2>4, <2>5 DEF SessionStep
<1>4. ASSUME NEW t \in Threads, CheckStep(t)
      PROVE  Inv'
  \* The thread is past its home, so the service is up.
  <2>1. proc = "up"
    BY <1>4 DEF CheckStep, LockInstalled, FetchSig, FetchExe, CreateNew, WriteNew, RemoveOld,
      MoveExe, MoveNew, Rollback, Record, Home
  <2>2. ASSUME NEW r \in Versions \cup {None, UpToDate, Failed}, Return(t, r)
        PROVE  /\ pc'[t] = "record" /\ outcome'[t] = r /\ lock' = None
               /\ \A u \in Threads \ {t} :
                    UNCHANGED <<pc[u], outcome[u], sig[u], body[u]>>
    BY <2>2 DEF Return
  <2>3. ASSUME NEW l, Goto(t, l)
        PROVE  pc'[t] = l /\ \A u \in Threads \ {t} : UNCHANGED pc[u]
    BY <2>3
  \* Inside the mutex the thread is alone, and nothing is installed yet.
  <2>4. ASSUME pc[t] \in Critical
        PROVE  lock = t /\ INSTALLED = None /\ \A u \in Threads \ {t} : pc[u] \notin Critical
    BY <2>4
  \* A step that gives up changes no file but, perhaps, NEW.
  <2>5. ASSUME pc[t] \in Critical, NEW r \in {UpToDate, Failed}, Return(t, r),
               UNCHANGED <<exe, old, proc, running, image, INSTALLED>>
        PROVE  Inv'
    <3>1. r \notin Versions /\ r \in Versions \cup {None, UpToDate, Failed}
      BY DEF Versions
    <3>2. /\ pc'[t] = "record" /\ outcome'[t] = r /\ lock' = None
          /\ \A u \in Threads \ {t} : UNCHANGED <<pc[u], outcome[u], sig[u], body[u]>>
      BY <2>2, <2>5, <3>1
    <3>3. \A u \in Threads \ {t} : pc[u] \notin Critical
      BY <2>4, <2>5
    <3>4. \A u \in Threads : pc'[u] \notin Critical /\ lock' # u
      BY <3>2, <3>3 DEF Threads
    <3>5. LockInv' /\ OneUpdateInv' /\ FetchInv' /\ BodyInv' /\ NewInv' /\ SwapInv'
      BY <3>4
    <3>6. OutcomeInv'
      BY <2>5, <3>1, <3>2
    <3>7. HookInv'
      BY <2>5, <3>2
    <3> QED
      BY <2>1, <2>5, <3>5, <3>6, <3>7
  \* A step that goes on leaves the mutex and the verdicts alone.
  <2>6. ASSUME pc[t] \in Critical, NEW l \in Critical, Goto(t, l),
               UNCHANGED <<lock, outcome, proc, running, INSTALLED>>
        PROVE  /\ LockInv' /\ QuietInv' /\ InstalledInv' /\ OneUpdateInv' /\ OutcomeInv'
               /\ HookInv' /\ RestartRunsNewer'
    <3>1. lock = t /\ INSTALLED = None /\ \A u \in Threads \ {t} : pc[u] \notin Critical
      BY <2>4, <2>6
    <3>2. pc'[t] = l /\ \A u \in Threads \ {t} : UNCHANGED pc[u]
      BY <2>3, <2>6
    <3>3. LockInv' /\ OneUpdateInv' /\ HookInv'
      BY <2>6, <3>1, <3>2
    <3> QED
      BY <2>1, <2>6, <3>1, <3>3
  <2>7. CASE LockInstalled(t)
    <3>1. CASE INSTALLED # None
      <4>1. Return(t, INSTALLED) /\ INSTALLED \in Versions
        BY <2>7, <3>1 DEF LockInstalled
      <4>2. /\ pc'[t] = "record" /\ outcome'[t] = INSTALLED /\ lock' = None
            /\ \A u \in Threads \ {t} : UNCHANGED <<pc[u], outcome[u], sig[u], body[u]>>
        BY <2>2, <4>1
      <4>3. \A u \in Threads : pc'[u] \notin Critical /\ lock' # u
        BY <3>1, <4>2 DEF Threads
      <4>4. LockInv' /\ OneUpdateInv' /\ FetchInv' /\ BodyInv' /\ NewInv' /\ SwapInv'
        BY <4>3
      <4>5. OutcomeInv' /\ HookInv'
        BY <2>7, <4>2 DEF LockInstalled
      <4> QED
        BY <2>1, <2>7, <4>4, <4>5 DEF LockInstalled, files
    <3>2. CASE INSTALLED = None
      <4>1. lock = None /\ lock' = t /\ Goto(t, "sig") /\ UNCHANGED locals
        BY <2>7, <3>2 DEF LockInstalled
      <4>2. pc'[t] = "sig" /\ \A u \in Threads \ {t} : UNCHANGED pc[u]
        BY <2>3, <4>1
      <4>3. \A u \in Threads \ {t} : pc[u] \notin Critical
        BY <4>1 DEF Threads
      <4>4. LockInv' /\ OneUpdateInv' /\ FetchInv' /\ BodyInv' /\ NewInv' /\ SwapInv'
        BY <2>7, <3>2, <4>1, <4>2, <4>3 DEF LockInstalled, files
      <4>5. OutcomeInv' /\ HookInv'
        BY <2>7, <4>1, <4>2 DEF LockInstalled, locals
      <4> QED
        BY <2>1, <2>7, <4>4, <4>5 DEF LockInstalled, files
    <3> QED
      BY <3>1, <3>2
  <2>8. CASE FetchSig(t)
    <3>1. CASE \E r \in {UpToDate, Failed} : Return(t, r)
      BY <2>5, <2>8, <3>1 DEF FetchSig, files
    <3>2. ASSUME NEW g \in Signatures, sig' = [sig EXCEPT ![t] = g], Goto(t, "exe"),
                 UNCHANGED <<lock, body, outcome>>
          PROVE  Inv'
      <4>1. sig'[t] = g /\ \A u \in Threads \ {t} : pc'[u] \notin Critical
        BY <2>3, <2>4, <2>8, <3>2 DEF FetchSig
      <4>2. FetchInv' /\ BodyInv' /\ NewInv' /\ SwapInv'
        BY <2>3, <3>2, <4>1
      <4> QED
        BY <2>6, <2>8, <3>2, <4>2 DEF FetchSig, files
    <3> QED
      BY <2>8, <3>1, <3>2 DEF FetchSig
  <2>9. CASE FetchExe(t)
    <3>1. sig[t] \in Signatures
      BY <2>9 DEF FetchExe
    <3>2. CASE Return(t, Failed)
      BY <2>5, <2>9, <3>2 DEF FetchExe, files
    <3>3. ASSUME NEW bytes \in Versions \cup {Junk}, Verifies(bytes, sig[t]),
                 body' = [body EXCEPT ![t] = bytes], Goto(t, "create"),
                 UNCHANGED <<lock, sig, outcome>>
          PROVE  Inv'
      <4>1. body'[t] \in Versions /\ body'[t] > running
        BY <3>1, <3>3, VerifiedIsNewer
      <4>2. pc'[t] = "create" /\ \A u \in Threads \ {t} : pc'[u] \notin Critical
        BY <2>3, <2>4, <2>9, <3>3 DEF FetchExe
      <4>3. FetchInv' /\ BodyInv' /\ NewInv' /\ SwapInv'
        BY <2>9, <4>1, <4>2 DEF FetchExe
      <4> QED
        BY <2>6, <2>9, <3>3, <4>3 DEF FetchExe, files
    <3> QED
      BY <2>9, <3>2, <3>3 DEF FetchExe
  <2>10. CASE CreateNew(t)
    <3>1. CASE Return(t, Failed)
      BY <2>5, <2>10, <3>1 DEF CreateNew
    <3>2. CASE Goto(t, "write") /\ UNCHANGED <<lock, locals>>
      <4>1. pc'[t] = "write" /\ \A u \in Threads \ {t} : pc'[u] \notin Critical
        BY <2>3, <2>4, <2>10, <3>2 DEF CreateNew
      <4>2. FetchInv' /\ BodyInv' /\ NewInv' /\ SwapInv'
        BY <2>10, <3>2, <4>1 DEF CreateNew, locals
      <4> QED
        BY <2>6, <2>10, <3>2, <4>2 DEF CreateNew, locals
    <3> QED
      BY <2>10, <3>1, <3>2 DEF CreateNew
  <2>11. CASE WriteNew(t)
    <3>1. CASE Return(t, Failed)
      BY <2>5, <2>11, <3>1 DEF WriteNew
    <3>2. CASE new' = body[t] /\ Goto(t, "rm_old") /\ UNCHANGED <<lock, locals>>
      <4>1. pc'[t] = "rm_old" /\ \A u \in Threads \ {t} : pc'[u] \notin Critical
        BY <2>3, <2>4, <2>11, <3>2 DEF WriteNew
      <4>2. FetchInv' /\ BodyInv' /\ NewInv' /\ SwapInv'
        BY <2>11, <3>2, <4>1 DEF WriteNew, locals
      <4> QED
        BY <2>6, <2>11, <3>2, <4>2 DEF WriteNew, locals
    <3> QED
      BY <2>11, <3>1, <3>2 DEF WriteNew
  <2>12. CASE RemoveOld(t)
    <3>1. CASE Return(t, Failed) /\ UNCHANGED old
      BY <2>5, <2>12, <3>1 DEF RemoveOld
    <3>2. CASE /\ old = NoFile \/ image # "old"
               /\ Goto(t, "mv_exe") /\ UNCHANGED <<lock, locals>>
      <4>1. pc'[t] = "mv_exe" /\ \A u \in Threads \ {t} : pc'[u] \notin Critical
        BY <2>3, <2>4, <2>12, <3>2 DEF RemoveOld
      <4>2. image = "exe"
        BY <2>1, <3>2
      <4>3. FetchInv' /\ BodyInv' /\ NewInv' /\ SwapInv'
        BY <2>12, <3>2, <4>1, <4>2 DEF RemoveOld, locals
      <4> QED
        BY <2>1, <2>6, <2>12, <3>2, <4>2, <4>3 DEF RemoveOld, locals
    <3> QED
      BY <2>12, <3>1, <3>2 DEF RemoveOld
  <2>13. CASE MoveExe(t)
    <3>1. CASE Return(t, Failed) /\ UNCHANGED <<exe, old, image>>
      BY <2>5, <2>13, <3>1 DEF MoveExe
    <3>2. CASE /\ exe # NoFile /\ old' = exe /\ exe' = NoFile /\ image' = "old"
               /\ Goto(t, "mv_new") /\ UNCHANGED <<lock, locals>>
      <4>1. pc'[t] = "mv_new" /\ \A u \in Threads \ {t} : pc'[u] \notin Critical
        BY <2>3, <2>4, <2>13, <3>2 DEF MoveExe
      <4>2. exe = running
        BY <2>1, <2>13 DEF MoveExe
      <4>3. FetchInv' /\ BodyInv' /\ NewInv' /\ SwapInv'
        BY <2>13, <3>2, <4>1 DEF MoveExe, locals
      <4> QED
        BY <2>1, <2>6, <2>13, <3>2, <4>2, <4>3 DEF MoveExe, locals
    <3> QED
      BY <2>13, <3>1, <3>2 DEF MoveExe
  <2>14. CASE MoveNew(t)
    <3>0. /\ new = body[t] /\ body[t] \in Versions /\ body[t] > running
          /\ image = "old" /\ exe = NoFile /\ INSTALLED = None /\ old = running
          /\ \A u \in Threads \ {t} : pc[u] \notin Critical
      BY <2>1, <2>4, <2>14 DEF MoveNew
    <3>1. CASE exe' = new /\ INSTALLED' = body[t] /\ Return(t, body[t])
      <4>1. /\ pc'[t] = "record" /\ outcome'[t] = body[t] /\ lock' = None
            /\ \A u \in Threads \ {t} : UNCHANGED <<pc[u], outcome[u], sig[u], body[u]>>
        BY <2>2, <3>0, <3>1
      <4>2. \A u \in Threads : pc'[u] \notin Critical /\ lock' # u
        BY <3>0, <4>1 DEF Threads
      <4>3. LockInv' /\ OneUpdateInv' /\ FetchInv' /\ BodyInv' /\ NewInv' /\ SwapInv'
        BY <4>2
      <4>4. \A u \in Threads \ {t} : outcome[u] \notin Versions
        BY <3>0
      <4>5. OutcomeInv' /\ HookInv'
        BY <3>0, <3>1, <4>1, <4>4
      <4> QED
        BY <2>1, <2>14, <3>0, <3>1, <4>3, <4>5 DEF MoveNew
    <3>2. CASE Goto(t, "rollback") /\ UNCHANGED <<exe, new, INSTALLED, lock, locals>>
      <4>1. pc'[t] = "rollback" /\ \A u \in Threads \ {t} : pc'[u] \notin Critical
        BY <2>3, <3>0, <3>2
      <4>2. FetchInv' /\ BodyInv' /\ NewInv' /\ SwapInv'
        BY <2>14, <3>0, <3>2, <4>1 DEF MoveNew, locals
      <4> QED
        BY <2>1, <2>6, <2>14, <3>0, <3>2, <4>2 DEF MoveNew, locals
    <3> QED
      BY <2>14, <3>1, <3>2 DEF MoveNew
  <2>15. CASE Rollback(t)
    <3>1. CASE UNCHANGED <<exe, old, image>>
      BY <2>5, <2>15, <3>1 DEF Rollback
    <3>2. CASE exe' = old /\ old' = NoFile /\ image' = "exe"
      <4>1. /\ pc'[t] = "record" /\ outcome'[t] = Failed /\ lock' = None
            /\ \A u \in Threads \ {t} : UNCHANGED <<pc[u], outcome[u], sig[u], body[u]>>
        BY <2>2, <2>15 DEF Rollback
      <4>2. /\ image = "old" /\ INSTALLED = None /\ old = running /\ running \in Versions
            /\ \A u \in Threads \ {t} : pc[u] \notin Critical
        BY <2>1, <2>4, <2>15 DEF Rollback
      <4>3. \A u \in Threads : pc'[u] \notin Critical /\ lock' # u
        BY <4>1, <4>2 DEF Threads
      <4>4. LockInv' /\ OneUpdateInv' /\ FetchInv' /\ BodyInv' /\ NewInv' /\ SwapInv'
        BY <4>3
      <4>5. OutcomeInv' /\ HookInv'
        BY <2>15, <4>1 DEF Rollback
      <4>6. running >= running
        BY <4>2
      <4> QED
        BY <2>1, <2>15, <3>2, <4>2, <4>4, <4>5, <4>6 DEF Rollback
    <3> QED
      BY <2>15, <3>1, <3>2 DEF Rollback
  <2>16. CASE Record(t)
    <3>1. \E l \in {"hook", "sleep", "reply"} :
            /\ Goto(t, l)
            /\ l = "hook" => outcome[t] \in Versions
      BY <2>16 DEF Record
    <3>2. \A u \in Threads : outcome'[u] \in {outcome[u], None}
      BY <2>16 DEF Record
    <3>3. PICK l \in {"hook", "sleep", "reply"} :
            /\ pc'[t] = l /\ \A u \in Threads \ {t} : UNCHANGED pc[u]
            /\ l = "hook" => outcome[t] \in Versions
      BY <2>3, <3>1
    <3>4. LockInv' /\ OneUpdateInv' /\ FetchInv' /\ BodyInv' /\ NewInv' /\ SwapInv'
      BY <2>16, <3>3 DEF Record, statics, files
    <3>5. OutcomeInv' /\ HookInv'
      BY <2>16, <3>2, <3>3 DEF Record, statics
    <3> QED
      BY <2>1, <2>16, <3>4, <3>5 DEF Record, statics, files
  <2> QED
    BY <1>4, <2>7, <2>8, <2>9, <2>10, <2>11, <2>12, <2>13, <2>14, <2>15, <2>16 DEF CheckStep
<1>5. ASSUME NEW t \in Threads, RestartStep(t)
      PROVE  Inv'
  <2>1. CASE Hook(t)
    BY <2>1 DEF Hook, files, statics, locals, Home
  <2>2. CASE StopWaiting(t)
    BY <2>2 DEF StopWaiting, files, statics, locals, Home
  <2>3. CASE Exit(t)
    BY <2>3, <1>0 DEF Exit, Home
  <2> QED
    BY <1>5, <2>1, <2>2, <2>3 DEF RestartStep
<1>6. CASE UNCHANGED vars
  BY <1>6 DEF vars, files, statics, threads, locals
<1> QED
  BY <1>1, <1>2, <1>3, <1>4, <1>5, <1>6 DEF Next

-----------------------------------------------------------------------------
\* The three invariants hold in every reachable state of the service.
LEMMA AllInvariants == Spec => [](TypeOK /\ ActiveCounts /\ Inv)
<1>1. Init => TypeOK /\ ActiveCounts /\ Inv
  BY TypeInit, ActiveInit, InvInit
<1>2. TypeOK /\ ActiveCounts /\ Inv /\ [Next]_vars => (TypeOK /\ ActiveCounts /\ Inv)'
  <2> SUFFICES ASSUME TypeOK, ActiveCounts, Inv, [Next]_vars
               PROVE  (TypeOK /\ ActiveCounts /\ Inv)'
    OBVIOUS
  <2>1. FetchInv /\ BodyInv /\ NewInv
    BY DEF Inv
  <2> QED
    BY <2>1, TypeStep, ActiveStep, InvStep
<1> QED
  BY <1>1, <1>2, PTL DEF Spec

\* The state of the service, its folder and its threads keeps its type; above
\* all, the exe's path never holds half a file and ACTIVE never underflows.
THEOREM TypeCorrect == Spec => []TypeOK
BY AllInvariants, PTL

\* Restarts wait for exactly the sessions there are: Busy's counter is right
\* however a session ends, for any number of sessions.
THEOREM ActiveIsCorrect == Spec => []ActiveCounts
BY AllInvariants, PTL

\* No interleaving of checks, failed renames, crashes and stops puts anything at
\* the exe's path but a release at least as new as the one that ran last.
THEOREM ExeCorrect == Spec => []ExeNeverOlder
<1>1. Inv => ExeNeverOlder
  BY DEF Inv
<1> QED
  BY <1>1, AllInvariants, PTL

\* Whenever swap, or its end midway, leaves no exe, OLD is the program that ran.
THEOREM BuildSurvives == Spec => []SomeBuildSurvives
<1>1. Inv => SomeBuildSurvives
  BY DEF Inv
<1> QED
  BY <1>1, AllInvariants, PTL

\* What check_for_update answers about an installed update is true of the disk
\* when it is said and stays so for the rest of the run.
THEOREM InstalledCorrect == Spec => []InstalledIsOnDisk
<1>1. Inv => InstalledIsOnDisk
  BY DEF Inv, InstalledInv, OutcomeInv, InstalledIsOnDisk
<1> QED
  BY <1>1, AllInvariants, PTL

\* restart_when_idle's exit(1) always leads to a newer program.
THEOREM RestartCorrect == Spec => []RestartRunsNewer
<1>1. Inv => RestartRunsNewer
  BY DEF Inv
<1> QED
  BY <1>1, AllInvariants, PTL

\* No step, and so no crash, stop or restart, takes the service to an older build.
THEOREM NeverOlder == Spec => RunningNeverOlder
<1>1. TypeOK /\ Inv /\ [Next]_vars => [running' >= running]_vars
  <2> SUFFICES ASSUME TypeOK, Inv, [Next]_vars PROVE running' >= running
    OBVIOUS
  <2>1. running \in Int
    BY DEF TypeOK, Versions
  <2>2. CASE FailureAction \/ ManualStart
    <3>1. running' = running \/ (exe # NoFile /\ running' = exe)
      BY <2>2 DEF FailureAction, ManualStart, Launch
    <3> QED
      BY <2>1, <3>1 DEF Inv, ExeNeverOlder
  <2>3. CASE ~(FailureAction \/ ManualStart)
    <3>1. UNCHANGED running
      BY <2>3 DEF Next, ProcessStep, CleanOld, CleanNew, Listen, ListenFails, Crash, Control,
        EndProcess, CheckerWakes, SessionStep, Accept, Enter, SessionEnds, AskUpdate, Reply,
        CheckStep, LockInstalled, FetchSig, FetchExe, CreateNew, WriteNew, RemoveOld, MoveExe,
        MoveNew, Rollback, Record, RestartStep, Hook, StopWaiting, Exit, vars
    <3> QED
      BY <2>1, <3>1
  <2> QED
    BY <2>2, <2>3
<1> QED
  BY <1>1, AllInvariants, PTL DEF Spec, RunningNeverOlder

-----------------------------------------------------------------------------
(* The pipe the service listens on, of HelperPipe: its name never lapses     *)
(* while the service listens and is never shared, and no client goes on with *)
(* a pipe another program serves, for any number of clients, of pids and of  *)
(* starts of the service.  No theorem is about both specifications.          *)

\* A process that is there has been started.
Started == spc # "off" => born >= 1

\* Which of the loop's two instances there is, at each of its steps.
Instances ==
    /\ spc = "wait" => next # Nil
    /\ spc = "next" => cur # Nil
    /\ spc = "hand" => next # Nil

\* No other program has the name while the loop runs.
Alone == spc \in Listening => other = 0

\* A pid has one holder at a time, and the other program's pipes are closed
\* before its pid can be another's.
Paired ==
    /\ spc # "off" => pid \in Pids /\ pid # other
    /\ \A c \in Clients : conn[c] = Other => other # 0 /\ server[c] = other

\* The inductive invariant of the pipe.
PipeInv == PipeTypeOK /\ Started /\ Instances /\ Alone /\ Paired /\ TrustsOnlyService

\* NameHeld follows from where the loop is.
LEMMA InvImpliesNameHeld == PipeInv => NameHeld
BY DEF PipeInv, Instances, Alone, NameHeld, Listening

-----------------------------------------------------------------------------
(* The service *)

\* At first nothing runs and nobody is connected.
LEMMA PipeInitInv == PipeInit => PipeInv
<1> SUFFICES ASSUME PipeInit PROVE PipeInv
  OBVIOUS
<1> USE ClientsAreNoMarkers, BoundsAreNat DEF PipeInit
<1>1. 1 \in 1..MaxBuild /\ 1 \in 1..installed /\ 0 \in 0..MaxBuild /\ born \in 0..MaxStarts /\ 0 \in 0..born
  OBVIOUS
<1>2. PipeTypeOK
  <2>1. installed \in 1..MaxBuild /\ build \in 1..installed /\ born \in 0..MaxStarts
    BY <1>1
  <2>2. /\ conn \in [Clients -> (0..born) \cup {Other, Gone}]
        /\ want \in [Clients -> 0..MaxBuild]
        /\ st \in [Clients -> {"idle", "open", "verify", "ok", "using", "done"}]
        /\ result \in [Clients -> {Nil, "none", "busy", "refused", "lost", "back", "waiting"}]
    BY <1>1
  <2> QED
    BY <2>1, <2>2 DEF PipeTypeOK, Listening, Reported
<1>3. Started /\ Instances /\ Alone /\ Paired /\ TrustsOnlyService
  BY OtherIsNoNumber DEF Started, Instances, Alone, Paired, TrustsOnlyService, Listening
<1> QED
  BY <1>2, <1>3 DEF PipeInv

\* What ends the process leaves nothing of it.
LEMMA EndKeepsInv == PipeInv /\ End => PipeInv'
<1> SUFFICES ASSUME PipeInv, End PROVE PipeInv'
  OBVIOUS
<1> USE DEF PipeInv, End, clients
<1>1. PipeTypeOK'
  BY DEF PipeTypeOK, Listening, Reported
<1>2. (Started /\ Instances /\ Alone /\ Paired)'
  BY DEF Started, Instances, Alone, Paired, Listening
<1>3. TrustsOnlyService'
  BY DEF TrustsOnlyService
<1> QED
  BY <1>1, <1>2, <1>3

\* A process that is started holds nothing yet.
LEMMA StartKeepsInv == PipeInv /\ StartService => PipeInv'
<1> SUFFICES ASSUME PipeInv, StartService PROVE PipeInv'
  OBVIOUS
<1> USE BoundsAreNat DEF PipeInv, StartService, clients
<1>1. (0..born) \subseteq 0..born' /\ born' \in 0..MaxStarts /\ born' >= 1
  BY DEF PipeTypeOK
<1>2. PipeTypeOK'
  BY <1>1 DEF PipeTypeOK, Listening, Reported
<1>3. (Started /\ Instances /\ Alone /\ Paired)'
  BY <1>1 DEF Started, Instances, Alone, Paired, Listening
<1>4. TrustsOnlyService'
  BY <1>1 DEF PipeTypeOK, TrustsOnlyService
<1> QED
  BY <1>2, <1>3, <1>4

\* The loop of serve_pipe.
LEMMA ServeKeepsInv == PipeInv /\ (Serve \/ ConnectFails) => PipeInv'
<1> SUFFICES ASSUME PipeInv, Serve \/ ConnectFails PROVE PipeInv'
  OBVIOUS
<1> USE ClientsAreNoMarkers DEF PipeInv, clients, Listening, Reported
<1>1. CASE ReportRunning
  BY <1>1 DEF ReportRunning, PipeTypeOK, Started, Instances, Alone, Paired, TrustsOnlyService
<1>2. CASE CreateFirst
  BY <1>2 DEF CreateFirst, NameIsTaken, NameExists, PipeTypeOK, Started, Instances,
     Alone, Paired, TrustsOnlyService
<1>3. CASE CreateFails \/ HandOverFails
  BY <1>3, EndKeepsInv DEF CreateFails, HandOverFails
<1>4. CASE Connect
  BY <1>4 DEF Connect, Connected, PipeTypeOK, Started, Instances, Alone, Paired, TrustsOnlyService
<1>5. CASE ConnectFails
  BY <1>5 DEF ConnectFails, Connected, PipeTypeOK, Started, Instances, Alone, Paired, TrustsOnlyService
<1>6. CASE CreateNext
  BY <1>6 DEF CreateNext, PipeTypeOK, Started, Instances, Alone, Paired, TrustsOnlyService
<1>7. CASE HandOver
  BY <1>7 DEF HandOver, KeptAfter, WithSession, PipeTypeOK, Started, Instances, Alone,
     Paired, TrustsOnlyService
<1> QED
  BY <1>1, <1>2, <1>3, <1>4, <1>5, <1>6, <1>7 DEF Serve

\* The other program takes the name only where the service has no instance.
LEMMA OtherKeepsInv == PipeInv /\ (OtherTakesName \/ OtherGivesUp) => PipeInv'
<1> SUFFICES ASSUME PipeInv, OtherTakesName \/ OtherGivesUp PROVE PipeInv'
  OBVIOUS
<1> USE OtherIsNoNumber DEF PipeInv
<1>1. CASE OtherTakesName
  <2>1. /\ other = 0 /\ next = Nil /\ cur = Nil /\ other' \in Pids /\ other' # 0
        /\ spc # "off" => other' # pid
        /\ UNCHANGED <<installed, born, pid, spc, build, next, cur, sessions, st, conn,
                       server, want, result>>
    BY <1>1, PidsArePositive DEF OtherTakesName, NameExists, service, clients
  <2>2. PipeTypeOK' /\ Started' /\ Instances'
    BY <2>1 DEF PipeTypeOK, Started, Instances, Listening, Reported
  <2>3. Alone' /\ Paired' /\ TrustsOnlyService'
    BY <2>1 DEF Instances, Alone, Paired, TrustsOnlyService, Listening
  <2> QED
    BY <2>2, <2>3
<1>2. CASE OtherGivesUp
  <2>1. /\ other' = 0
        /\ conn' = [c \in Clients |-> IF conn[c] = Other THEN Gone ELSE conn[c]]
        /\ UNCHANGED <<installed, born, pid, spc, build, next, cur, sessions, st, server,
                       want, result>>
    BY <1>2 DEF OtherGivesUp, service
  <2>2. /\ conn' \in [Clients -> (0..born) \cup {Other, Gone}]
        /\ \A c \in Clients : conn'[c] # Other
    BY <2>1 DEF PipeTypeOK
  <2>3. PipeTypeOK' /\ Started' /\ Instances' /\ Alone'
    BY <2>1, <2>2 DEF PipeTypeOK, Started, Instances, Alone, Listening, Reported
  <2>4. Paired' /\ TrustsOnlyService'
    BY <2>1, <2>2, PidsArePositive DEF Paired, TrustsOnlyService
  <2> QED
    BY <2>3, <2>4
<1> QED
  BY <1>1, <1>2

-----------------------------------------------------------------------------
(* The clients *)

\* Finish moves a client out of its session and touches nothing else.
LEMMA FinishTypes ==
  ASSUME PipeInv, NEW c \in Clients, NEW r \in {"none", "busy", "refused", "lost"}, Finish(c, r)
  PROVE  /\ st' \in [Clients -> {"idle", "open", "verify", "ok", "using", "done"}]
         /\ \A d \in Clients : st'[d] \in {"ok", "using"} => d # c /\ st'[d] = st[d]
         /\ want' \in [Clients -> 0..MaxBuild]
         /\ result' \in [Clients -> {Nil, "none", "busy", "refused", "lost", "back", "waiting"}]
<1> USE DEF Finish, PipeInv, PipeTypeOK
<1>1. CASE want[c] = 0
  BY <1>1
<1>2. CASE want[c] # 0
  BY <1>2
<1> QED
  BY <1>1, <1>2

\* A client that leaves turns its instance into one that was left, and takes
\* none away.
LEMMA DisconnectKeeps ==
  ASSUME PipeInv, NEW c \in Clients, Disconnect(c)
  PROVE  /\ next' \in Clients \cup {Nil, Free, Left} /\ (next' = Nil <=> next = Nil)
         /\ cur' \in Clients \cup {Nil, Left, Broken} /\ (cur' = Nil <=> cur = Nil)
         /\ sessions' \subseteq sessions
         /\ conn' \in [Clients -> (0..born) \cup {Other, Gone}]
         /\ server' \in [Clients -> Pids \cup {0}]
         /\ conn'[c] = 0
         /\ \A d \in Clients \ {c} : conn'[d] = conn[d] /\ server'[d] = server[d]
<1> USE ClientsAreNoMarkers, BoundsAreNat DEF Disconnect, PipeInv, PipeTypeOK
<1>1. next' \in Clients \cup {Nil, Free, Left} /\ (next' = Nil <=> next = Nil)
  OBVIOUS
<1>2. cur' \in Clients \cup {Nil, Left, Broken} /\ (cur' = Nil <=> cur = Nil)
  OBVIOUS
<1>3. sessions' \subseteq sessions
  OBVIOUS
<1>4. 0 \in 0..born
  OBVIOUS
<1>5. /\ conn' \in [Clients -> (0..born) \cup {Other, Gone}]
      /\ server' \in [Clients -> Pids \cup {0}]
      /\ conn'[c] = 0
      /\ \A d \in Clients \ {c} : conn'[d] = conn[d] /\ server'[d] = server[d]
  BY <1>4
<1> QED
  BY <1>1, <1>2, <1>3, <1>5

\* So a step that disconnects a client and takes it out of its session keeps
\* the invariant.
LEMMA DisconnectInv ==
  ASSUME PipeInv, NEW c \in Clients, Disconnect(c),
         st' \in [Clients -> {"idle", "open", "verify", "ok", "using", "done"}],
         \A d \in Clients : st'[d] \in {"ok", "using"} => d # c /\ st'[d] = st[d],
         want' \in [Clients -> 0..MaxBuild],
         result' \in [Clients -> {Nil, "none", "busy", "refused", "lost", "back", "waiting"}]
  PROVE  PipeInv'
<1>1. /\ next' \in Clients \cup {Nil, Free, Left} /\ (next' = Nil <=> next = Nil)
      /\ cur' \in Clients \cup {Nil, Left, Broken} /\ (cur' = Nil <=> cur = Nil)
      /\ sessions' \subseteq sessions
      /\ conn' \in [Clients -> (0..born) \cup {Other, Gone}]
      /\ server' \in [Clients -> Pids \cup {0}]
      /\ conn'[c] = 0
      /\ \A d \in Clients \ {c} : conn'[d] = conn[d] /\ server'[d] = server[d]
  BY DisconnectKeeps
<1>2. UNCHANGED <<installed, born, pid, spc, build, other>>
  BY DEF Disconnect
<1>3. PipeTypeOK'
  BY <1>1, <1>2 DEF PipeInv, PipeTypeOK, Listening, Reported
<1>4. (Started /\ Instances /\ Alone /\ Paired)'
  BY <1>1, <1>2, OtherIsNoNumber DEF PipeInv, PipeTypeOK, Started, Instances, Alone, Paired, Listening
<1>5. TrustsOnlyService'
  BY <1>1, <1>2 DEF PipeInv, TrustsOnlyService
<1> QED
  BY <1>3, <1>4, <1>5 DEF PipeInv

\* No step of a client takes an instance from the loop.
LEMMA ClientKeepsInv == ASSUME PipeInv, NEW c \in Clients, ClientStep(c) PROVE PipeInv'
<1> USE ClientsAreNoMarkers DEF PipeInv
<1>1. CASE Begin(c)
  BY <1>1 DEF Begin, service, PipeTypeOK, Started, Instances, Alone, Paired, TrustsOnlyService,
     Listening, Reported
<1>2. CASE FindNoPipe(c) \/ PipeBusy(c)
  <2>1. UNCHANGED <<service, other, conn, server>> /\ (Finish(c, "none") \/ Finish(c, "busy"))
    BY <1>2 DEF FindNoPipe, PipeBusy
  <2>2. /\ st' \in [Clients -> {"idle", "open", "verify", "ok", "using", "done"}]
        /\ \A d \in Clients : st'[d] \in {"ok", "using"} => d # c /\ st'[d] = st[d]
        /\ want' \in [Clients -> 0..MaxBuild]
        /\ result' \in [Clients -> {Nil, "none", "busy", "refused", "lost", "back", "waiting"}]
    BY <2>1, FinishTypes
  <2>3. PipeTypeOK'
    BY <2>1, <2>2 DEF service, PipeTypeOK, Listening, Reported
  <2>4. (Started /\ Instances /\ Alone /\ Paired)'
    BY <2>1 DEF service, Started, Instances, Alone, Paired, Listening
  <2>5. TrustsOnlyService'
    BY <2>1, <2>2 DEF service, TrustsOnlyService
  <2> QED
    BY <2>3, <2>4, <2>5
<1>3. CASE OpenPipe(c)
  <2>1. born \in 0..born
    BY BoundsAreNat DEF PipeTypeOK
  <2>2. next' \in Clients \cup {Nil, Free, Left} /\ (next' = Nil <=> next = Nil)
    BY <1>3 DEF OpenPipe, PipeTypeOK
  <2>3. conn' \in [Clients -> (0..born) \cup {Other, Gone}]
    BY <1>3, <2>1 DEF OpenPipe, PipeTypeOK
  <2>4. PipeTypeOK'
    BY <1>3, <2>2, <2>3 DEF OpenPipe, PipeTypeOK, Listening, Reported
  <2>5. (Started /\ Instances /\ Alone)'
    BY <1>3, <2>2 DEF OpenPipe, Started, Instances, Alone, Listening
  <2>7. Paired'
    <3>1. UNCHANGED <<pid, spc, other>> /\ Other # born
      BY <1>3, OtherIsNoNumber, BoundsAreNat DEF OpenPipe, PipeTypeOK
    <3>2. \A d \in Clients : conn'[d] = Other => other # 0 /\ server'[d] = other
      BY <1>3, <3>1 DEF OpenPipe, PipeTypeOK, Paired
    <3> QED
      BY <3>1, <3>2 DEF Paired
  <2>6. TrustsOnlyService'
    BY <1>3 DEF OpenPipe, PipeTypeOK, TrustsOnlyService
  <2> QED
    BY <2>4, <2>5, <2>6, <2>7
<1>4. CASE Verify(c)
  <2>1. PICK p \in {service_pid, 0} :
          IF p # 0 /\ p = server[c]
          THEN /\ st' = [st EXCEPT ![c] = "ok"]
               /\ UNCHANGED <<service, other, conn, server, want, result>>
          ELSE Finish(c, "refused") /\ Disconnect(c)
    BY <1>4 DEF Verify
  <2>2. CASE p # 0 /\ p = server[c]
    <3>1. conn[c] # Other
      BY <2>2 DEF service_pid, Paired, PipeTypeOK, Reported, Listening
    <3>2. PipeTypeOK' /\ (Started /\ Instances /\ Alone /\ Paired)'
      BY <2>1, <2>2 DEF service, PipeTypeOK, Started, Instances, Alone, Paired, Listening, Reported
    <3>3. TrustsOnlyService'
      BY <2>1, <2>2, <3>1 DEF service, PipeTypeOK, TrustsOnlyService
    <3> QED
      BY <3>2, <3>3
  <2>3. CASE ~(p # 0 /\ p = server[c])
    BY <2>1, <2>3, FinishTypes, DisconnectInv
  <2> QED
    BY <2>2, <2>3
<1>5. CASE Handshake(c)
  <2>1. CASE want[c] = 0
    BY <1>5, <2>1 DEF Handshake, service, PipeTypeOK, Started, Instances, Alone,
       Paired, TrustsOnlyService, Listening, Reported
  <2>2. CASE want[c] # 0
    BY <1>5, <2>2, DisconnectInv DEF Handshake, PipeTypeOK
  <2> QED
    BY <2>1, <2>2
<1>6. CASE LoseService(c)
  BY <1>6, FinishTypes, DisconnectInv DEF LoseService
<1>7. CASE ClientUpdates(c)
  <2>1. installed' \in 1..MaxBuild /\ installed <= installed' /\ 0 \in 0..born
    BY <1>7, BoundsAreNat DEF ClientUpdates, PipeTypeOK
  <2>2. conn' \in [Clients -> (0..born) \cup {Other, Gone}] /\ want' \in [Clients -> 0..MaxBuild]
    BY <1>7, <2>1 DEF ClientUpdates, PipeTypeOK
  <2>3. build' \in 1..installed'
    BY <1>7, <2>1, BoundsAreNat DEF ClientUpdates, PipeTypeOK
  <2>4. PipeTypeOK'
    BY <1>7, <2>1, <2>2, <2>3 DEF ClientUpdates, PipeTypeOK, Listening, Reported
  <2>5. (Started /\ Instances /\ Alone)'
    BY <1>7 DEF ClientUpdates, Started, Instances, Alone, Listening
  <2>7. Paired'
    BY <1>7, OtherIsNoNumber DEF ClientUpdates, PipeTypeOK, Paired
  <2>6. TrustsOnlyService'
    BY <1>7 DEF ClientUpdates, PipeTypeOK, TrustsOnlyService
  <2> QED
    BY <2>4, <2>5, <2>6, <2>7
<1>8. CASE GiveUp(c)
  BY <1>8 DEF GiveUp, service, PipeTypeOK, Started, Instances, Alone, Paired, TrustsOnlyService,
     Listening, Reported
<1>9. CASE Leave(c)
  BY <1>9, DisconnectInv DEF Leave, PipeTypeOK
<1>10. CASE Again(c)
  <2>1. 0 \in 0..MaxBuild
    BY BoundsAreNat
  <2> QED
    BY <1>10, <2>1 DEF Again, service, PipeTypeOK, Started, Instances, Alone,
       Paired, TrustsOnlyService, Listening, Reported
<1> QED
  BY <1>1, <1>2, <1>3, <1>4, <1>5, <1>6, <1>7, <1>8, <1>9, <1>10 DEF ClientStep

-----------------------------------------------------------------------------
\* Every step keeps the invariant.
LEMMA PipeNextKeepsInv == PipeInv /\ [PipeNext]_pipeVars => PipeInv'
<1> SUFFICES ASSUME PipeInv, [PipeNext]_pipeVars PROVE PipeInv'
  OBVIOUS
<1>1. CASE StartService
  BY <1>1, StartKeepsInv
<1>2. CASE ProcessEnds
  BY <1>2, EndKeepsInv DEF ProcessEnds
<1>3. CASE Serve \/ ConnectFails
  BY <1>3, ServeKeepsInv
<1>4. CASE OtherTakesName \/ OtherGivesUp
  BY <1>4, OtherKeepsInv
<1>5. CASE \E c \in Clients : ClientStep(c)
  BY <1>5, ClientKeepsInv
<1>6. CASE UNCHANGED pipeVars
  BY <1>6 DEF pipeVars, service, clients, PipeInv, PipeTypeOK, Started, Instances, Alone,
     Paired, TrustsOnlyService, Listening, Reported
<1> QED
  BY <1>1, <1>2, <1>3, <1>4, <1>5, <1>6 DEF PipeNext

\* The invariant holds throughout.
LEMMA PipeInvAlways == PipeSpec => []PipeInv
BY PipeInitInv, PipeNextKeepsInv, PTL DEF PipeSpec

\* Every variable keeps its type, and a process that has ended holds nothing
\* of the pipe (the statics and handles of serve_pipe).
THEOREM PipeTypes == PipeSpec => []PipeTypeOK
<1>1. PipeInv => PipeTypeOK
  BY DEF PipeInv
<1> QED
  BY <1>1, PipeInvAlways, PTL

\* serve_pipe's loop holds the pipe's name at each of its steps, for any
\* clients, and so never shares it with another program.
THEOREM NameIsHeld == PipeSpec => []NameHeld
BY InvImpliesNameHeld, PipeInvAlways, PTL

\* connect_to goes on with no pipe that another program serves, for any clients
\* and however pids are used again.
THEOREM OnlyServiceTrusted == PipeSpec => []TrustsOnlyService
<1>1. PipeInv => TrustsOnlyService
  BY DEF PipeInv
<1> QED
  BY <1>1, PipeInvAlways, PTL

=============================================================================
