-------------------------- MODULE SupervisorProofs --------------------------
(***************************************************************************)
(* Proofs about Supervisor, for every number of processes, every backoff   *)
(* and every bound on exits and failed starts, and about Launcher, which   *)
(* runs that supervisor again and again, for every number of runs.         *)
(***************************************************************************)
EXTENDS Supervisor, Launcher, TLAPS

\* What a watch goroutine knows of its process.
WatchKnows ==
    \A p \in Procs :
        /\ watch[p] = "none" <=> proc[p] = "none"
        /\ watch[p] \in {"decide", "backoff", "done"} => proc[p] = "exited"

\* How far Start is.
StartProgress ==
    /\ pc \in {"start", "await"} =>
        \A p \in Procs : p < cur => wasHealthy[p] /\ watch[p] # "none"
    /\ pc = "start" => \A p \in Procs : p >= cur => proc[p] = "none"
    /\ pc = "await" => /\ proc[cur] # "none"
                       /\ \A p \in Procs : p > cur => proc[p] = "none"

HealthIsRecorded == \A p \in Procs : healthy[p] => wasHealthy[p]

\* The inductive invariant.
IInv ==
    /\ TypeOK
    /\ OneInstance
    /\ WatchKnows
    /\ StartProgress
    /\ HealthIsRecorded
    /\ StartIsHealthGated
    /\ ReverseStopOrder

-----------------------------------------------------------------------------
(* Backoff.next stays between 0 and Max. *)
LEMMA NextDelayType ==
    ASSUME NEW d \in 0..MaxDelay
    PROVE  NextDelay(d) \in 0..MaxDelay
<1>1. d * Multiplier \in Nat
  BY ConstantsAssumption
<1> QED
  BY <1>1, ConstantsAssumption DEF NextDelay

(* The invariant holds before the first process is started. *)
LEMMA InitIInv == Init => IInv
<1> SUFFICES ASSUME Init PROVE IInv
  OBVIOUS
<1> USE ConstantsAssumption DEF Init, Procs
<1>1. TypeOK
  <2>1. /\ pc \in {"start", "await", "run", "exit"} \cup StopPhase /\ cur \in Procs
        /\ exits \in 0..MaxExits /\ startErrors \in 0..MaxStartErrors
    OBVIOUS
  <2>2. /\ proc \in [Procs -> {"none", "running", "exited"}]
        /\ watch \in [Procs -> {"none", "wait", "decide", "backoff", "done"}]
        /\ alive \in [Procs -> Nat] /\ delay \in [Procs -> 0..MaxDelay]
    OBVIOUS
  <2>3. /\ signalled \in BOOLEAN
        /\ healthy \in [Procs -> BOOLEAN] /\ wasHealthy \in [Procs -> BOOLEAN]
        /\ stopping \in [Procs -> BOOLEAN] /\ late \in [Procs -> BOOLEAN]
    OBVIOUS
  <2> QED
    BY <2>1, <2>2, <2>3 DEF TypeOK
<1>2. OneInstance
  BY DEF OneInstance
<1>3. WatchKnows
  BY DEF WatchKnows
<1>4. StartProgress
  BY DEF StartProgress
<1>5. HealthIsRecorded
  BY DEF HealthIsRecorded
<1>6. StartIsHealthGated
  BY DEF StartIsHealthGated
<1>7. ReverseStopOrder
  BY DEF ReverseStopOrder, StoppedSoFar, StopPhase
<1> QED
  BY <1>1, <1>2, <1>3, <1>4, <1>5, <1>6, <1>7 DEF IInv

(* Every step preserves the invariant. *)
LEMMA NextIInv == IInv /\ [Next]_vars => IInv'
<1> SUFFICES ASSUME IInv, [Next]_vars PROVE IInv'
  OBVIOUS
<1> USE ConstantsAssumption DEF IInv, Procs
<1>1. CASE StartProcess
  <2>1. TypeOK'
    BY <1>1 DEF StartProcess, Launch, TypeOK, StopPhase
  <2>2. (OneInstance /\ WatchKnows)'
    BY <1>1 DEF StartProcess, Launch, TypeOK, OneInstance, WatchKnows, StartProgress
  <2>3. (StartProgress /\ HealthIsRecorded /\ StartIsHealthGated)'
    BY <1>1 DEF StartProcess, Launch, TypeOK, WatchKnows, StartProgress,
        HealthIsRecorded, StartIsHealthGated
  <2>4. ReverseStopOrder'
    BY <1>1 DEF StartProcess, Launch, TypeOK, WatchKnows, StartProgress, ReverseStopOrder,
        StoppedSoFar, StopPhase
  <2> QED
    BY <2>1, <2>2, <2>3, <2>4
<1>2. CASE StartProcessFails
  <2>1. TypeOK'
    BY <1>2 DEF StartProcessFails, procVars, regVars, TypeOK, StopPhase
  <2>2. (OneInstance /\ WatchKnows)'
    BY <1>2 DEF StartProcessFails, procVars, regVars, TypeOK, OneInstance, WatchKnows, StartProgress
  <2>3. (StartProgress /\ HealthIsRecorded /\ StartIsHealthGated)'
    BY <1>2 DEF StartProcessFails, procVars, regVars, TypeOK, WatchKnows, StartProgress,
        HealthIsRecorded, StartIsHealthGated
  <2>4. ReverseStopOrder'
    BY <1>2 DEF StartProcessFails, procVars, regVars, TypeOK, WatchKnows, StartProgress, ReverseStopOrder,
        StoppedSoFar, StopPhase
  <2> QED
    BY <2>1, <2>2, <2>3, <2>4
<1>3. CASE AwaitHealthy
  <2>1. TypeOK'
    <3>1. cur' \in Procs /\ pc' \in {"start", "run"}
      BY <1>3 DEF AwaitHealthy, TypeOK
    <3> QED
      BY <1>3, <3>1 DEF AwaitHealthy, procVars, regVars, TypeOK, StopPhase
  <2>2. (OneInstance /\ WatchKnows)'
    BY <1>3 DEF AwaitHealthy, procVars, regVars, TypeOK, OneInstance, WatchKnows, StartProgress
  <2>3. (StartProgress /\ HealthIsRecorded /\ StartIsHealthGated)'
    <3>1. wasHealthy[cur] /\ watch[cur] # "none"
      BY <1>3 DEF AwaitHealthy, TypeOK, WatchKnows, StartProgress, HealthIsRecorded
    <3>2. CASE cur < N
      BY <1>3, <3>1, <3>2 DEF AwaitHealthy, procVars, regVars, TypeOK, WatchKnows,
          StartProgress, HealthIsRecorded, StartIsHealthGated
    <3>3. CASE ~(cur < N)
      BY <1>3, <3>3 DEF AwaitHealthy, procVars, regVars, TypeOK, WatchKnows,
          StartProgress, HealthIsRecorded, StartIsHealthGated
    <3> QED
      BY <3>2, <3>3
  <2>4. ReverseStopOrder'
    BY <1>3 DEF AwaitHealthy, procVars, regVars, TypeOK, WatchKnows, StartProgress, ReverseStopOrder,
        StoppedSoFar, StopPhase
  <2> QED
    BY <2>1, <2>2, <2>3, <2>4
<1>4. CASE AwaitFails
  <2>1. TypeOK'
    BY <1>4 DEF AwaitFails, procVars, regVars, TypeOK, StopPhase
  <2>2. (OneInstance /\ WatchKnows)'
    BY <1>4 DEF AwaitFails, procVars, regVars, TypeOK, OneInstance, WatchKnows, StartProgress
  <2>3. (StartProgress /\ HealthIsRecorded /\ StartIsHealthGated)'
    BY <1>4 DEF AwaitFails, procVars, regVars, TypeOK, WatchKnows, StartProgress,
        HealthIsRecorded, StartIsHealthGated
  <2>4. ReverseStopOrder'
    BY <1>4 DEF AwaitFails, procVars, regVars, TypeOK, WatchKnows, StartProgress, ReverseStopOrder,
        StoppedSoFar, StopPhase
  <2> QED
    BY <2>1, <2>2, <2>3, <2>4
<1>5. CASE Signal
  <2>1. TypeOK'
    BY <1>5 DEF Signal, procVars, regVars, TypeOK, StopPhase
  <2>2. (OneInstance /\ WatchKnows)'
    BY <1>5 DEF Signal, procVars, regVars, TypeOK, OneInstance, WatchKnows, StartProgress
  <2>3. (StartProgress /\ HealthIsRecorded /\ StartIsHealthGated)'
    BY <1>5 DEF Signal, procVars, regVars, TypeOK, WatchKnows, StartProgress,
        HealthIsRecorded, StartIsHealthGated
  <2>4. ReverseStopOrder'
    BY <1>5 DEF Signal, procVars, regVars, TypeOK, WatchKnows, StartProgress, ReverseStopOrder,
        StoppedSoFar, StopPhase
  <2> QED
    BY <2>1, <2>2, <2>3, <2>4
<1>6. CASE Shutdown
  <2>1. TypeOK'
    BY <1>6 DEF Shutdown, procVars, regVars, TypeOK, StopPhase
  <2>2. (OneInstance /\ WatchKnows)'
    BY <1>6 DEF Shutdown, procVars, regVars, TypeOK, OneInstance, WatchKnows, StartProgress
  <2>3. (StartProgress /\ HealthIsRecorded /\ StartIsHealthGated)'
    BY <1>6 DEF Shutdown, procVars, regVars, TypeOK, WatchKnows, StartProgress,
        HealthIsRecorded, StartIsHealthGated
  <2>4. ReverseStopOrder'
    BY <1>6 DEF Shutdown, procVars, regVars, TypeOK, WatchKnows, StartProgress, ReverseStopOrder,
        StoppedSoFar, StopPhase
  <2> QED
    BY <2>1, <2>2, <2>3, <2>4
<1>7. CASE Mark
  <2>1. TypeOK'
    BY <1>7 DEF Mark, procVars, TypeOK, StopPhase
  <2>2. (OneInstance /\ WatchKnows)'
    BY <1>7 DEF Mark, procVars, TypeOK, OneInstance, WatchKnows, StartProgress
  <2>3. (StartProgress /\ HealthIsRecorded /\ StartIsHealthGated)'
    BY <1>7 DEF Mark, procVars, TypeOK, WatchKnows, StartProgress,
        HealthIsRecorded, StartIsHealthGated
  <2>4. ReverseStopOrder'
    BY <1>7 DEF Mark, procVars, TypeOK, WatchKnows, StartProgress, ReverseStopOrder,
        StoppedSoFar, StopPhase
  <2> QED
    BY <2>1, <2>2, <2>3, <2>4
<1>8. CASE StopProcess
  <2>1. TypeOK'
    BY <1>8 DEF StopProcess, procVars, regVars, TypeOK, StopPhase
  <2>2. (OneInstance /\ WatchKnows)'
    BY <1>8 DEF StopProcess, procVars, regVars, TypeOK, OneInstance, WatchKnows, StartProgress
  <2>3. (StartProgress /\ HealthIsRecorded /\ StartIsHealthGated)'
    BY <1>8 DEF StopProcess, procVars, regVars, TypeOK, WatchKnows, StartProgress,
        HealthIsRecorded, StartIsHealthGated
  <2>4. ReverseStopOrder'
    BY <1>8 DEF StopProcess, procVars, regVars, TypeOK, WatchKnows, StartProgress, ReverseStopOrder,
        StoppedSoFar, StopPhase
  <2> QED
    BY <2>1, <2>2, <2>3, <2>4
<1>9. CASE Terminate
  <2>1. TypeOK'
    BY <1>9 DEF Terminate, Gone, mainVars, regVars, TypeOK, StopPhase, OneInstance
  <2>2. (OneInstance /\ WatchKnows)'
    BY <1>9 DEF Terminate, Gone, mainVars, regVars, TypeOK, OneInstance, WatchKnows, StartProgress
  <2>3. (StartProgress /\ HealthIsRecorded /\ StartIsHealthGated)'
    BY <1>9 DEF Terminate, Gone, mainVars, regVars, TypeOK, WatchKnows, StartProgress,
        HealthIsRecorded, StartIsHealthGated
  <2>4. ReverseStopOrder'
    BY <1>9 DEF Terminate, Gone, mainVars, regVars, TypeOK, WatchKnows, StartProgress, ReverseStopOrder,
        StoppedSoFar, StopPhase
  <2> QED
    BY <2>1, <2>2, <2>3, <2>4
<1>10. CASE StopReturns
  <2>1. TypeOK'
    BY <1>10 DEF StopReturns, procVars, regVars, TypeOK, StopPhase
  <2>2. (OneInstance /\ WatchKnows)'
    BY <1>10 DEF StopReturns, procVars, regVars, TypeOK, OneInstance, WatchKnows, StartProgress
  <2>3. (StartProgress /\ HealthIsRecorded /\ StartIsHealthGated)'
    BY <1>10 DEF StopReturns, procVars, regVars, TypeOK, WatchKnows, StartProgress,
        HealthIsRecorded, StartIsHealthGated
  <2>4. ReverseStopOrder'
    BY <1>10 DEF StopReturns, procVars, regVars, TypeOK, WatchKnows, StartProgress, ReverseStopOrder,
        StoppedSoFar, StopPhase
  <2> QED
    BY <2>1, <2>2, <2>3, <2>4
<1>11. CASE Join
  <2>0. cur' \in Procs /\ pc' \in {"mark", "exit"}
    BY <1>11 DEF Join, TypeOK
  <2>1. TypeOK'
    BY <1>11, <2>0 DEF Join, procVars, regVars, TypeOK, StopPhase
  <2>2. (OneInstance /\ WatchKnows)'
    BY <1>11 DEF Join, procVars, regVars, TypeOK, OneInstance, WatchKnows, StartProgress
  <2>3. (StartProgress /\ HealthIsRecorded /\ StartIsHealthGated)'
    BY <1>11 DEF Join, procVars, regVars, TypeOK, WatchKnows, StartProgress,
        HealthIsRecorded, StartIsHealthGated
  <2>4. ReverseStopOrder'
    <3>1. proc[cur] # "running" /\ watch[cur] \in {"none", "done"}
      BY <1>11 DEF Join, TypeOK, WatchKnows
    <3>2. CASE cur > 1
      BY <1>11, <3>1, <3>2 DEF Join, procVars, regVars, TypeOK, ReverseStopOrder,
          StoppedSoFar, StopPhase
    <3>3. CASE ~(cur > 1)
      BY <1>11, <3>1, <3>3 DEF Join, procVars, regVars, TypeOK, ReverseStopOrder,
          StoppedSoFar, StopPhase
    <3> QED
      BY <3>2, <3>3
  <2> QED
    BY <2>1, <2>2, <2>3, <2>4
<1>12. ASSUME NEW p \in Procs, WatchWait(p) PROVE IInv'
  <2>1. TypeOK'
    BY <1>12 DEF WatchWait, mainVars, procVars, TypeOK, StopPhase
  <2>2. (OneInstance /\ WatchKnows)'
    BY <1>12 DEF WatchWait, mainVars, procVars, TypeOK, OneInstance, WatchKnows, StartProgress
  <2>3. (StartProgress /\ HealthIsRecorded /\ StartIsHealthGated)'
    BY <1>12 DEF WatchWait, mainVars, procVars, TypeOK, WatchKnows, StartProgress,
        HealthIsRecorded, StartIsHealthGated
  <2>4. ReverseStopOrder'
    BY <1>12 DEF WatchWait, mainVars, procVars, TypeOK, WatchKnows, StartProgress, ReverseStopOrder,
        StoppedSoFar, StopPhase
  <2> QED
    BY <2>1, <2>2, <2>3, <2>4
<1>13. ASSUME NEW p \in Procs, WatchDecide(p) PROVE IInv'
  <2>1. UNCHANGED <<mainVars, procVars, stopping, late, exits, startErrors>>
    BY <1>13 DEF WatchDecide
  <2>2. /\ watch[p] = "decide"
        /\ watch' \in {[watch EXCEPT ![p] = "done"], [watch EXCEPT ![p] = "backoff"]}
    BY <1>13 DEF WatchDecide
  <2>3. delay' \in [Procs -> 0..MaxDelay]
    <3>1. NextDelay(delay[p]) \in 0..MaxDelay
      BY NextDelayType DEF TypeOK
    <3>2. delay' = delay \/ delay' = [delay EXCEPT ![p] = NextDelay(delay[p])]
      BY <1>13 DEF WatchDecide
    <3> QED
      BY <3>1, <3>2 DEF TypeOK
  <2>4. TypeOK'
    BY <2>1, <2>2, <2>3 DEF mainVars, procVars, TypeOK, StopPhase
  <2>5. (OneInstance /\ WatchKnows)'
    <3>1. CASE watch' = [watch EXCEPT ![p] = "done"]
      BY <2>1, <2>2, <3>1 DEF procVars, TypeOK, OneInstance, WatchKnows
    <3>2. CASE watch' = [watch EXCEPT ![p] = "backoff"]
      BY <2>1, <2>2, <3>2 DEF procVars, TypeOK, OneInstance, WatchKnows
    <3> QED
      BY <2>2, <3>1, <3>2
  <2>6. (StartProgress /\ HealthIsRecorded /\ StartIsHealthGated)'
    <3>1. \A q \in Procs : watch[q] # "none" => watch'[q] # "none"
      BY <2>2 DEF TypeOK
    <3> QED
      BY <2>1, <3>1 DEF mainVars, procVars, StartProgress, HealthIsRecorded, StartIsHealthGated
  <2>7. ReverseStopOrder'
    BY <2>1, <2>2, <2>3 DEF mainVars, procVars, TypeOK, WatchKnows, StartProgress, ReverseStopOrder,
        StoppedSoFar, StopPhase
  <2> QED
    BY <2>4, <2>5, <2>6, <2>7
<1>14. ASSUME NEW p \in Procs, WatchRestart(p) PROVE IInv'
  <2>1. TypeOK'
    BY <1>14 DEF WatchRestart, Launch, mainVars, TypeOK, StopPhase
  <2>2. (OneInstance /\ WatchKnows)'
    BY <1>14 DEF WatchRestart, Launch, mainVars, TypeOK, OneInstance, WatchKnows, StartProgress
  <2>3. (StartProgress /\ HealthIsRecorded /\ StartIsHealthGated)'
    BY <1>14 DEF WatchRestart, Launch, mainVars, TypeOK, WatchKnows, StartProgress,
        HealthIsRecorded, StartIsHealthGated
  <2>4. ReverseStopOrder'
    BY <1>14 DEF WatchRestart, Launch, mainVars, TypeOK, WatchKnows, StartProgress, ReverseStopOrder,
        StoppedSoFar, StopPhase
  <2> QED
    BY <2>1, <2>2, <2>3, <2>4
<1>15. ASSUME NEW p \in Procs, WatchRestartFails(p) PROVE IInv'
  <2>1. NextDelay(delay[p]) \in 0..MaxDelay
    BY NextDelayType DEF TypeOK
  <2>2. TypeOK'
    BY <1>15, <2>1 DEF WatchRestartFails, mainVars, procVars, TypeOK, StopPhase
  <2>3. (OneInstance /\ WatchKnows)'
    BY <1>15, <2>1 DEF WatchRestartFails, mainVars, procVars, TypeOK, OneInstance, WatchKnows, StartProgress
  <2>4. (StartProgress /\ HealthIsRecorded /\ StartIsHealthGated)'
    BY <1>15, <2>1 DEF WatchRestartFails, mainVars, procVars, TypeOK, WatchKnows, StartProgress,
        HealthIsRecorded, StartIsHealthGated
  <2>5. ReverseStopOrder'
    BY <1>15, <2>1 DEF WatchRestartFails, mainVars, procVars, TypeOK, WatchKnows, StartProgress, ReverseStopOrder,
        StoppedSoFar, StopPhase
  <2> QED
    BY <2>2, <2>3, <2>4, <2>5
<1>16. ASSUME NEW p \in Procs, BecomeHealthy(p) PROVE IInv'
  <2>1. TypeOK'
    BY <1>16 DEF BecomeHealthy, mainVars, regVars, TypeOK, StopPhase
  <2>2. (OneInstance /\ WatchKnows)'
    BY <1>16 DEF BecomeHealthy, mainVars, regVars, TypeOK, OneInstance, WatchKnows, StartProgress
  <2>3. (StartProgress /\ HealthIsRecorded /\ StartIsHealthGated)'
    BY <1>16 DEF BecomeHealthy, mainVars, regVars, TypeOK, WatchKnows, StartProgress,
        HealthIsRecorded, StartIsHealthGated
  <2>4. ReverseStopOrder'
    BY <1>16 DEF BecomeHealthy, mainVars, regVars, TypeOK, WatchKnows, StartProgress, ReverseStopOrder,
        StoppedSoFar, StopPhase
  <2> QED
    BY <2>1, <2>2, <2>3, <2>4
<1>17. ASSUME NEW p \in Procs, Exit(p) PROVE IInv'
  <2>1. TypeOK'
    BY <1>17 DEF Exit, Gone, mainVars, regVars, TypeOK, StopPhase, OneInstance
  <2>2. (OneInstance /\ WatchKnows)'
    BY <1>17 DEF Exit, Gone, mainVars, regVars, TypeOK, OneInstance, WatchKnows, StartProgress
  <2>3. (StartProgress /\ HealthIsRecorded /\ StartIsHealthGated)'
    BY <1>17 DEF Exit, Gone, mainVars, regVars, TypeOK, WatchKnows, StartProgress,
        HealthIsRecorded, StartIsHealthGated
  <2>4. ReverseStopOrder'
    BY <1>17 DEF Exit, Gone, mainVars, regVars, TypeOK, WatchKnows, StartProgress, ReverseStopOrder,
        StoppedSoFar, StopPhase
  <2> QED
    BY <2>1, <2>2, <2>3, <2>4
<1>18. CASE UNCHANGED vars
  BY <1>18 DEF vars, mainVars, procVars, regVars, TypeOK, OneInstance, WatchKnows,
      StartProgress, HealthIsRecorded, StartIsHealthGated, ReverseStopOrder, StoppedSoFar
<1> QED
  BY <1>1, <1>2, <1>3, <1>4, <1>5, <1>6, <1>7, <1>8, <1>9, <1>10, <1>11, <1>12,
     <1>13, <1>14, <1>15, <1>16, <1>17, <1>18 DEF Next

-----------------------------------------------------------------------------
(* The types, the single instance, the start order and the stop order of the   *)
(* supervisor hold in every reachable state, for any number of processes.      *)
THEOREM Invariance == Spec => []IInv
<1>1. Init => IInv
  BY InitIInv
<1>2. IInv /\ [Next]_vars => IInv'
  BY NextIInv
<1> QED
  BY <1>1, <1>2, PTL DEF Spec

(* The state of the supervisor is well typed.                                  *)
THEOREM TypeCorrect == Spec => []TypeOK
<1>1. IInv => TypeOK
  BY DEF IInv
<1> QED
  BY <1>1, Invariance, PTL

(* A registration never has two processes: watch starts a new one only after   *)
(* Wait returned, Start only before there was any.                             *)
THEOREM AtMostOneInstance == Spec => []OneInstance
<1>1. IInv => OneInstance
  BY DEF IInv
<1> QED
  BY <1>1, Invariance, PTL

(* Stop is through with a process only when it is down and cannot come back:   *)
(* Stop joins the watch goroutine before it goes on.                           *)
THEOREM StopsInReverse == Spec => []ReverseStopOrder
<1>1. IInv => ReverseStopOrder
  BY DEF IInv
<1> QED
  BY <1>1, Invariance, PTL

(* No process is started before all processes in front of it were healthy.     *)
THEOREM StartsInOrder == Spec => []StartIsHealthGated
<1>1. IInv => StartIsHealthGated
  BY DEF IInv
<1> QED
  BY <1>1, Invariance, PTL

-----------------------------------------------------------------------------
(* What Stop can hang on. *)

(* Stop can go on, or the watch it waits for can, unless the process it is at  *)
(* was restarted behind its back.                                              *)
StopGoesOn ==
    pc \in StopPhase =>
        \/ pc \in {"mark", "stop"}
        \/ pc = "term" /\ proc[cur] \in {"running", "exited"}
        \/ pc = "join" /\ watch[cur] \in {"none", "done", "decide", "backoff"}
        \/ pc = "join" /\ watch[cur] = "wait" /\ proc[cur] = "exited"
        \/ late[cur]

(* A process that Stop has marked is started by nobody but a watch that was    *)
(* already in its backoff, and that leaves a trace.                            *)
OnlyBackoffRestarts ==
    \A p \in Procs : stopping[p] /\ alive'[p] > alive[p] => watch[p] = "backoff" /\ late'[p]

\* What holds of a process that Stop is at.
StopKnows ==
    /\ pc \in {"stop", "term", "join"} => stopping[cur]
    /\ pc \in {"start", "await", "run"} => \A p \in Procs : ~stopping[p]
    /\ pc = "term" => proc[cur] # "none"
    /\ pc = "join" /\ proc[cur] = "running" => late[cur]

(* Once Stop is in ExecProcess.Stop or waits for the watch, a process comes    *)
(* back only behind its back.                                                  *)
LEMMA StopStep == IInv /\ StopKnows /\ [Next]_vars => StopKnows'
<1> SUFFICES ASSUME IInv, StopKnows, [Next]_vars PROVE StopKnows'
  OBVIOUS
<1> USE ConstantsAssumption DEF Procs
<1>1. TypeOK /\ WatchKnows /\ StartProgress
  BY DEF IInv
<1>2. CASE StartProcess
  BY <1>1, <1>2 DEF StartProcess, Launch, TypeOK, StopKnows
<1>3. CASE StartProcessFails \/ AwaitHealthy \/ AwaitFails \/ Signal \/ Shutdown
  BY <1>1, <1>3 DEF StartProcessFails, AwaitHealthy, AwaitFails, Signal, Shutdown, procVars, regVars,
     TypeOK, StopKnows
<1>4. CASE Mark
  BY <1>1, <1>4 DEF Mark, procVars, TypeOK, StopKnows
<1>5. CASE StopProcess \/ StopReturns
  BY <1>1, <1>5 DEF StopProcess, StopReturns, procVars, regVars, TypeOK, StopKnows
<1>6. CASE Terminate
  BY <1>1, <1>6 DEF Terminate, Gone, mainVars, regVars, TypeOK, StopKnows
<1>7. CASE Join
  BY <1>1, <1>7 DEF Join, procVars, regVars, TypeOK, StopKnows
<1>8. ASSUME NEW p \in Procs, WatchWait(p) \/ WatchDecide(p) \/ WatchRestartFails(p) PROVE StopKnows'
  BY <1>1, <1>8 DEF WatchWait, WatchDecide, WatchRestartFails, mainVars, procVars, TypeOK, StopKnows
<1>9. ASSUME NEW p \in Procs, WatchRestart(p) PROVE StopKnows'
  BY <1>1, <1>9 DEF WatchRestart, Launch, mainVars, TypeOK, StopKnows
<1>10. ASSUME NEW p \in Procs, BecomeHealthy(p) \/ Exit(p) PROVE StopKnows'
  <2>1. UNCHANGED <<pc, cur, stopping, late>>
    BY <1>10 DEF BecomeHealthy, Exit, mainVars, regVars
  <2>2. proc' = proc \/ proc' = [proc EXCEPT ![p] = "exited"]
    BY <1>10 DEF BecomeHealthy, Exit, Gone
  <2>3. cur \in Procs /\ proc'[cur] \in {proc[cur], "exited"}
    BY <1>1, <2>2 DEF TypeOK
  <2> QED
    BY <2>1, <2>3 DEF StopKnows
<1>11. CASE UNCHANGED vars
  BY <1>11 DEF vars, mainVars, procVars, regVars, StopKnows
<1> QED
  BY <1>2, <1>3, <1>4, <1>5, <1>6, <1>7, <1>8, <1>9, <1>10, <1>11 DEF Next

LEMMA InitStop == Init => StopKnows
BY ConstantsAssumption DEF Init, StopKnows, Procs

(* Stop and the watches never wait for each other: as long as no process was   *)
(* restarted behind Stop's back, one of them can take its next step.           *)
THEOREM StopNeverStuck == Spec => []StopGoesOn
<1>1. IInv /\ StopKnows => StopGoesOn
  <2> SUFFICES ASSUME IInv, StopKnows PROVE StopGoesOn
    OBVIOUS
  <2>1. TypeOK /\ WatchKnows
    BY DEF IInv
  <2> QED
    BY <2>1 DEF TypeOK, WatchKnows, StopKnows, StopGoesOn, StopPhase
<1>2. IInv /\ StopKnows /\ [Next]_vars => StopKnows'
  BY StopStep
<1> QED
  BY <1>1, <1>2, InitStop, Invariance, PTL DEF Spec

(* Nothing but a watch that was in its backoff starts a process that Stop has  *)
(* marked: Start never does, and a watch that wakes up later finds the mark.   *)
THEOREM ComesBackFromBackoff == Spec => [][OnlyBackoffRestarts]_vars
<1>1. IInv /\ StopKnows /\ [Next]_vars => [OnlyBackoffRestarts]_vars
  <2> SUFFICES ASSUME IInv, StopKnows, Next PROVE OnlyBackoffRestarts
    BY DEF vars
  <2> SUFFICES ASSUME NEW p \in Procs, stopping[p], alive'[p] > alive[p]
               PROVE  watch[p] = "backoff" /\ late'[p]
    BY DEF OnlyBackoffRestarts
  <2>1. TypeOK
    BY DEF IInv
  <2>2. alive[p] \in Nat
    BY <2>1 DEF TypeOK
  <2>3. ~StartProcess
    BY <2>1 DEF StopKnows, StartProcess, TypeOK
  <2>4. ASSUME UNCHANGED alive PROVE FALSE
    BY <2>2, <2>4
  <2>5. ~Terminate /\ \A q \in Procs : ~Exit(q)
    BY <2>1, <2>2 DEF Terminate, Exit, Gone, TypeOK
  <2>6. PICK q \in Procs : WatchRestart(q)
    BY <2>3, <2>4, <2>5 DEF Next, StartProcessFails, AwaitHealthy, AwaitFails, Signal, Shutdown,
       Mark, StopProcess, StopReturns, Join, WatchWait, WatchDecide, WatchRestartFails,
       BecomeHealthy, procVars
  <2>7. p = q
    BY <2>1, <2>2, <2>6 DEF WatchRestart, Launch, TypeOK
  <2>8. late' = [late EXCEPT ![p] = late[p] \/ stopping[p]] /\ watch[p] = "backoff"
    BY <2>6, <2>7 DEF WatchRestart
  <2>9. late'[p] = (late[p] \/ stopping[p])
    BY <2>1, <2>8 DEF TypeOK
  <2> QED
    BY <2>8, <2>9, Zenon
<1>2. IInv /\ StopKnows /\ [Next]_vars => StopKnows'
  BY StopStep
<1> QED
  BY <1>1, <1>2, InitStop, Invariance, PTL DEF Spec

-----------------------------------------------------------------------------
(***************************************************************************)
(* The runs that follow one another: module Launcher.                      *)
(***************************************************************************)
OneRunUp == \A i, j \in Run : Up(i) /\ Up(j) => i = j

\* A run has no process before it starts its services and after it has ended.
NoneOutside ==
    \A i \in Run, s \in Service :
        plane[i] \in {"new", "configure", "write", "off"} => child[i][s] = "none"

\* Stop goes backwards, and leaves nothing that a watch could start again.
NoneAbove ==
    \A i \in Run, s \in Service :
        plane[i] = "stop" /\ s > at[i] => child[i][s] = "none"

OwnAnswer == \A i \in Run, s \in Service : answeredBy[i][s] \in {0, i}

\* The inductive invariant of the runs.
Handover == ~disturbed => OneRunUp /\ NoneOutside /\ NoneAbove /\ OwnAnswer
RunsInv  == LauncherTypeOK /\ Handover

\* The types of the variables that Handover is about.
RunsTyped ==
    /\ plane \in [Run -> {"new", "configure", "write", "start", "await", "run",
                          "stop", "hung", "off"}]
    /\ at \in [Run -> Service]
    /\ child \in [Run -> [Service -> {"none", "booting", "listening", "exited"}]]
    /\ answeredBy \in [Run -> [Service -> 0..MaxRuns]]

(* The services are numbered from 1.                                           *)
LEMMA ServiceNumbers ==
    /\ Services \in Nat /\ 1 \in Service /\ Services \in Service
    /\ \A s \in Service : s \in Nat /\ s >= 1 /\ s <= Services
    /\ \A s \in Service : s < Services => s + 1 \in Service
    /\ \A s \in Service : s > 1 => s - 1 \in Service
BY LauncherAssumption DEF Service

(* No run is up and no process runs in the beginning.                          *)
LEMMA InitRuns ==
    ASSUME LauncherInit
    PROVE  RunsInv
<1>1. LauncherTypeOK
  <2>1. /\ plane \in [Run -> {"new", "configure", "write", "start", "await", "run",
                              "stop", "hung", "off"}]
        /\ at \in [Run -> Service]
    BY ServiceNumbers DEF LauncherInit
  <2>2. child \in [Run -> [Service -> {"none", "booting", "listening", "exited"}]]
    BY DEF LauncherInit
  <2>3. answeredBy \in [Run -> [Service -> 0..MaxRuns]]
    BY LauncherAssumption DEF LauncherInit
  <2>4. /\ binary \in [Service -> {"none", "writing", "partial", "whole"}]
        /\ config \in [Service -> {"none", "torn", "whole"}]
    BY DEF LauncherInit
  <2>5. downloads \in 0..MaxDownloads /\ faults \in 0..MaxFaults
    BY LauncherAssumption DEF LauncherInit
  <2>6. disturbed \in BOOLEAN
    BY Zenon DEF LauncherInit
  <2> QED BY <2>1, <2>2, <2>3, <2>4, <2>5, <2>6, Zenon DEF LauncherTypeOK
<1>2. OneRunUp /\ NoneOutside /\ NoneAbove /\ OwnAnswer
  BY DEF LauncherInit, Up, OneRunUp, NoneOutside, NoneAbove, OwnAnswer
<1> QED BY <1>1, <1>2, Zenon DEF RunsInv, Handover

(* A step of one process: it was there, and no run moves.                      *)
LEMMA ProcessStep ==
    ASSUME RunsTyped, Handover, disturbed' = disturbed,
           UNCHANGED <<plane, at, answeredBy>>,
           NEW i \in Run, NEW s \in Service,
           NEW state \in {"none", "booting", "listening", "exited"},
           SetProc(i, s, state), child[i][s] # "none"
    PROVE  RunsTyped' /\ Handover'
<1>1. child' = [child EXCEPT ![i] = [child[i] EXCEPT ![s] = state]]
  BY DEF SetProc
<1>2. RunsTyped'
  <2>1. child' \in [Run -> [Service -> {"none", "booting", "listening", "exited"}]]
    BY <1>1 DEF RunsTyped
  <2> QED BY <2>1 DEF RunsTyped
<1>3. ASSUME OneRunUp, NoneOutside, NoneAbove, OwnAnswer
      PROVE  OneRunUp' /\ NoneOutside' /\ NoneAbove' /\ OwnAnswer'
  <2>1. \A j \in Run, t \in Service :
            child'[j][t] = IF j = i /\ t = s THEN state ELSE child[j][t]
    BY <1>1 DEF RunsTyped
  <2>2. OneRunUp'
    BY <1>3 DEF OneRunUp, Up
  <2>3. NoneOutside'
    BY <1>3, <2>1 DEF NoneOutside
  <2>4. NoneAbove'
    BY <1>3, <2>1 DEF NoneAbove
  <2>5. OwnAnswer'
    BY <1>3 DEF OwnAnswer
  <2> QED BY <2>2, <2>3, <2>4, <2>5
<1> QED BY <1>2, <1>3, Zenon DEF Handover

(* A step of one run that touches no process and ends no run that has one.     *)
LEMMA RunStep ==
    ASSUME RunsTyped, Handover, disturbed' = disturbed,
           UNCHANGED <<child, answeredBy>>,
           NEW i \in Run, NEW s \in Service,
           NEW where \in {"configure", "write", "start", "await", "run", "stop", "hung", "off"},
           Goto(i, where, s), Up(i),
           where \in {"configure", "write", "off"} => plane[i] \in {"configure", "write"},
           where = "stop" => s = Services
    PROVE  RunsTyped' /\ Handover'
<1>1. /\ plane' = [plane EXCEPT ![i] = where]
      /\ at' = [at EXCEPT ![i] = s]
  BY DEF Goto
<1>2. RunsTyped'
  BY <1>1 DEF RunsTyped
<1>3. ASSUME OneRunUp, NoneOutside, NoneAbove, OwnAnswer
      PROVE  OneRunUp' /\ NoneOutside' /\ NoneAbove' /\ OwnAnswer'
  <2>1. \A j \in Run : /\ plane'[j] = IF j = i THEN where ELSE plane[j]
                       /\ at'[j] = IF j = i THEN s ELSE at[j]
    BY <1>1 DEF RunsTyped
  <2>2. OneRunUp'
    BY <1>3, <2>1 DEF OneRunUp, Up
  <2>3. NoneOutside'
    BY <1>3, <2>1 DEF NoneOutside
  <2>4. NoneAbove'
    BY <1>3, <2>1, ServiceNumbers DEF NoneAbove
  <2>5. OwnAnswer'
    BY <1>3 DEF OwnAnswer
  <2> QED BY <2>2, <2>3, <2>4, <2>5
<1> QED BY <1>2, <1>3, Zenon DEF Handover

(* Start: a process where there may have been none, in a run that goes on.     *)
LEMMA StartRuns ==
    ASSUME RunsTyped, Handover, NEW i \in Run, Start(i)
    PROVE  RunsTyped' /\ Handover'
<1>1. /\ plane[i] = "start" /\ at[i] \in Service
      /\ child' = [child EXCEPT ![i] = [child[i] EXCEPT ![at[i]] = "booting"]]
      /\ plane' = [plane EXCEPT ![i] = "await"]
      /\ at' = [at EXCEPT ![i] = at[i]]
      /\ answeredBy' = answeredBy /\ disturbed' = disturbed
  BY DEF Start, SetProc, Goto, history, RunsTyped
<1>2. RunsTyped'
  <2>1. child' \in [Run -> [Service -> {"none", "booting", "listening", "exited"}]]
    BY <1>1 DEF RunsTyped
  <2> QED BY <1>1, <2>1 DEF RunsTyped
<1>3. ASSUME OneRunUp, NoneOutside, NoneAbove, OwnAnswer
      PROVE  OneRunUp' /\ NoneOutside' /\ NoneAbove' /\ OwnAnswer'
  <2>1. \A j \in Run : /\ plane'[j] = IF j = i THEN "await" ELSE plane[j]
                       /\ at'[j] = at[j]
                       /\ j # i => child'[j] = child[j]
    BY <1>1 DEF RunsTyped
  <2>2. OneRunUp'
    BY <1>1, <1>3, <2>1 DEF OneRunUp, Up
  <2>3. NoneOutside'
    BY <1>3, <2>1 DEF NoneOutside
  <2>4. NoneAbove'
    BY <1>3, <2>1 DEF NoneAbove
  <2>5. OwnAnswer'
    BY <1>1, <1>3 DEF OwnAnswer
  <2> QED BY <2>2, <2>3, <2>4, <2>5
<1> QED BY <1>1, <1>2, <1>3, Zenon DEF Handover

(* BecomesHealthy: whoever listens belongs to a run that is up, and there is   *)
(* only this one.                                                              *)
LEMMA HealthyRuns ==
    ASSUME RunsTyped, Handover, NEW i \in Run, BecomesHealthy(i)
    PROVE  RunsTyped' /\ Handover'
<1>1. PICK h \in Run : /\ child[h][at[i]] = "listening"
                       /\ answeredBy' = [answeredBy EXCEPT ![i][at[i]] = h]
  BY DEF BecomesHealthy
<1>2. /\ plane[i] = "await" /\ at[i] \in Service
      /\ child' = child /\ disturbed' = disturbed
      /\ answeredBy' = [answeredBy EXCEPT ![i] = [answeredBy[i] EXCEPT ![at[i]] = h]]
  BY <1>1 DEF BecomesHealthy, RunsTyped
<1>3. PICK where \in {"start", "run"}, s \in Service :
        plane' = [plane EXCEPT ![i] = where] /\ at' = [at EXCEPT ![i] = s]
  BY <1>2, ServiceNumbers DEF BecomesHealthy, Goto
<1>4. RunsTyped'
  <2>1. h \in 0..MaxRuns
    BY DEF Run
  <2>2. answeredBy' \in [Run -> [Service -> 0..MaxRuns]]
    BY <1>2, <2>1 DEF RunsTyped
  <2> QED BY <1>2, <1>3, <2>2 DEF RunsTyped
<1>5. ASSUME OneRunUp, NoneOutside, NoneAbove, OwnAnswer
      PROVE  OneRunUp' /\ NoneOutside' /\ NoneAbove' /\ OwnAnswer'
  <2>1. \A j \in Run : plane'[j] = IF j = i THEN where ELSE plane[j]
    BY <1>3 DEF RunsTyped
  <2>2. \A j \in Run : j # i => at'[j] = at[j]
    BY <1>3 DEF RunsTyped
  <2>3. h = i
    <3>1. Up(h) /\ Up(i)
      BY <1>1, <1>2, <1>5 DEF NoneOutside, Up
    <3> QED BY <1>5, <3>1 DEF OneRunUp
  <2>4. OneRunUp'
    BY <1>2, <1>5, <2>1 DEF OneRunUp, Up
  <2>5. NoneOutside'
    BY <1>2, <1>5, <2>1 DEF NoneOutside
  <2>6. NoneAbove'
    BY <1>2, <1>5, <2>1, <2>2 DEF NoneAbove
  <2>7. OwnAnswer'
    <3>1. \A j \in Run, t \in Service :
            answeredBy'[j][t] = IF j = i /\ t = at[i] THEN h ELSE answeredBy[j][t]
      BY <1>2 DEF RunsTyped
    <3> QED BY <1>5, <2>3, <3>1 DEF OwnAnswer
  <2> QED BY <2>4, <2>5, <2>6, <2>7
<1> QED BY <1>2, <1>4, <1>5, Zenon DEF Handover

(* StopService takes the processes away from the last to the first: when the   *)
(* run ends it has none.                                                       *)
LEMMA StopRuns ==
    ASSUME RunsTyped, Handover, NEW i \in Run, StopService(i)
    PROVE  RunsTyped' /\ Handover'
<1>1. /\ plane[i] = "stop" /\ at[i] \in Service
      /\ answeredBy' = answeredBy /\ disturbed' = disturbed
  BY DEF StopService, history, RunsTyped
<1>2. CASE Goto(i, "hung", at[i]) /\ UNCHANGED child
  BY <1>1, <1>2, RunStep DEF Up
<1>3. CASE /\ SetProc(i, at[i], "none")
           /\ IF at[i] > 1 THEN Goto(i, "stop", at[i] - 1) ELSE Goto(i, "off", 1)
  <2>1. child' = [child EXCEPT ![i] = [child[i] EXCEPT ![at[i]] = "none"]]
    BY <1>3 DEF SetProc
  <2>2. PICK where \in {"stop", "off"}, s \in Service :
          /\ plane' = [plane EXCEPT ![i] = where] /\ at' = [at EXCEPT ![i] = s]
          /\ where = "stop" => s = at[i] - 1
          /\ where = "off" => at[i] = 1
    <3>1. PICK a \in Service : a = at[i]
      BY <1>1
    <3>2. a \in Nat /\ a >= 1 /\ 1 \in Service /\ (a > 1 => a - 1 \in Service)
      BY ServiceNumbers
    <3>3. CASE a > 1
      <4>1. Goto(i, "stop", a - 1)
        BY <1>3, <3>1, <3>3
      <4> QED BY <3>1, <3>2, <3>3, <4>1 DEF Goto
    <3>4. CASE ~(a > 1)
      <4>1. Goto(i, "off", 1) /\ a = 1
        BY <1>3, <3>1, <3>2, <3>4
      <4> QED BY <3>1, <3>2, <4>1 DEF Goto
    <3> QED BY <3>3, <3>4
  <2>3. RunsTyped'
    <3>1. child' \in [Run -> [Service -> {"none", "booting", "listening", "exited"}]]
      BY <1>1, <2>1 DEF RunsTyped
    <3> QED BY <1>1, <2>2, <3>1 DEF RunsTyped
  <2>4. ASSUME OneRunUp, NoneOutside, NoneAbove, OwnAnswer
        PROVE  OneRunUp' /\ NoneOutside' /\ NoneAbove' /\ OwnAnswer'
    <3>1. \A j \in Run : /\ plane'[j] = IF j = i THEN where ELSE plane[j]
                         /\ at'[j] = IF j = i THEN s ELSE at[j]
      BY <2>2 DEF RunsTyped
    <3>2. \A j \in Run, t \in Service :
            child'[j][t] = IF j = i /\ t = at[i] THEN "none" ELSE child[j][t]
      BY <1>1, <2>1 DEF RunsTyped
    <3>3. OneRunUp'
      BY <1>1, <2>4, <3>1 DEF OneRunUp, Up
    <3>4. \A t \in Service : t >= at[i] => child'[i][t] = "none"
      <4>1. \A t \in Service : t >= at[i] => t = at[i] \/ t > at[i]
        <5>1. PICK a \in Nat : a = at[i]
          BY <1>1, ServiceNumbers
        <5>2. \A t \in Nat : t >= a => t = a \/ t > a
          OBVIOUS
        <5> QED BY <5>1, <5>2, ServiceNumbers
      <4>2. \A t \in Service : t > at[i] => child[i][t] = "none"
        BY <1>1, <2>4 DEF NoneAbove
      <4> QED BY <3>2, <4>1, <4>2
    <3>5. NoneOutside'
      <4>1. where = "off" => \A t \in Service : child'[i][t] = "none"
        BY <2>2, <3>4, ServiceNumbers
      <4>2. \A j \in Run, t \in Service : j # i => child'[j][t] = child[j][t]
        BY <3>2
      <4> QED BY <2>4, <3>1, <4>1, <4>2 DEF NoneOutside
    <3>6. NoneAbove'
      <4>1. where = "stop" => \A t \in Service : t > s => child'[i][t] = "none"
        <5>1. where = "stop" => \A t \in Service : t > s => t >= at[i]
          <6>1. PICK a \in Nat : a = at[i]
            BY <1>1, ServiceNumbers
          <6>2. s \in Nat /\ \A t \in Nat : t > a - 1 => t >= a
            BY ServiceNumbers
          <6> QED BY <2>2, <6>1, <6>2, ServiceNumbers
        <5> QED BY <3>4, <5>1
      <4>2. \A j \in Run, t \in Service : j # i => child'[j][t] = child[j][t]
        BY <3>2
      <4> QED BY <2>4, <3>1, <4>1, <4>2 DEF NoneAbove
    <3>7. OwnAnswer'
      BY <1>1, <2>4 DEF OwnAnswer
    <3> QED BY <3>3, <3>5, <3>6, <3>7
  <2> QED BY <1>1, <2>3, <2>4, Zenon DEF Handover
<1> QED BY <1>2, <1>3 DEF StopService

(* Begin: a run that begins while another is up disturbs it, so that when      *)
(* nothing is disturbed it is the only one.                                    *)
LEMMA BeginRuns ==
    ASSUME RunsTyped, Handover, NEW i \in Run, Begin(i)
    PROVE  RunsTyped' /\ Handover'
<1>1. /\ plane[i] = "new"
      /\ plane' = [plane EXCEPT ![i] = "configure"] /\ at' = [at EXCEPT ![i] = 1]
      /\ child' = child /\ answeredBy' = answeredBy
  BY DEF Begin, Goto
<1>2. disturbed' = (disturbed \/ \E j \in Run : Up(j))
  BY Zenon DEF Begin
<1>3. RunsTyped'
  BY <1>1, ServiceNumbers DEF RunsTyped
<1>4. ASSUME OneRunUp, NoneOutside, NoneAbove, OwnAnswer, \A j \in Run : ~Up(j)
      PROVE  OneRunUp' /\ NoneOutside' /\ NoneAbove' /\ OwnAnswer'
  <2>1. \A j \in Run : plane'[j] = IF j = i THEN "configure" ELSE plane[j]
    BY <1>1 DEF RunsTyped
  <2>2. OneRunUp'
    BY <1>4, <2>1 DEF OneRunUp, Up
  <2>3. NoneOutside'
    BY <1>1, <1>4, <2>1 DEF NoneOutside
  <2>4. NoneAbove'
    BY <1>1, <1>4, <2>1 DEF NoneAbove, Up
  <2>5. OwnAnswer'
    BY <1>1, <1>4 DEF OwnAnswer
  <2> QED BY <2>2, <2>3, <2>4, <2>5
<1> QED BY <1>2, <1>3, <1>4, Zenon DEF Handover

(* Kill: from then on the runs are disturbed.                                  *)
LEMMA KillRuns ==
    ASSUME RunsTyped, NEW i \in Run, Kill(i)
    PROVE  RunsTyped' /\ Handover'
<1>1. RunsTyped'
  BY DEF Kill, Goto, RunsTyped
<1>2. disturbed'
  BY Zenon DEF Kill
<1> QED BY <1>1, <1>2, Zenon DEF Handover

(* The steps of runControlPlane that start and stop nothing.                   *)
LEMMA MoveRuns ==
    ASSUME RunsTyped, Handover, NEW i \in Run,
           \/ TruncateConfig(i) \/ WriteConfig(i) \/ WriteConfigFails(i)
           \/ StartFails(i) \/ TimesOut(i) \/ Interrupt(i)
    PROVE  RunsTyped' /\ Handover'
<1>1. /\ disturbed' = disturbed /\ child' = child /\ answeredBy' = answeredBy
  BY DEF TruncateConfig, WriteConfig, WriteConfigFails, StartFails, TimesOut,
         Interrupt, history
<1>2. at[i] \in Service /\ 1 \in Service /\ Services \in Service
      /\ (at[i] < Services => at[i] + 1 \in Service)
  BY ServiceNumbers DEF RunsTyped
<1>3. CASE TruncateConfig(i)
  <2>1. plane[i] = "configure" /\ Goto(i, "write", at[i])
    BY <1>3 DEF TruncateConfig
  <2> QED BY <1>1, <1>2, <2>1, RunStep DEF Up
<1>4. CASE WriteConfig(i)
  <2>1. plane[i] = "write"
    BY <1>4 DEF WriteConfig
  <2>2. CASE at[i] < Services /\ Goto(i, "configure", at[i] + 1)
    BY <1>1, <1>2, <2>1, <2>2, RunStep DEF Up
  <2>3. CASE Goto(i, "off", 1)
    BY <1>1, <1>2, <2>1, <2>3, RunStep DEF Up
  <2>4. CASE Goto(i, "start", 1)
    BY <1>1, <1>2, <2>1, <2>4, RunStep DEF Up
  <2> QED BY <1>4, <2>2, <2>3, <2>4 DEF WriteConfig
<1>5. CASE WriteConfigFails(i)
  <2>1. plane[i] = "write" /\ Goto(i, "off", at[i])
    BY <1>5 DEF WriteConfigFails
  <2> QED BY <1>1, <1>2, <2>1, RunStep DEF Up
<1>6. CASE StartFails(i) \/ TimesOut(i) \/ Interrupt(i)
  <2>1. plane[i] \in {"start", "await", "run"} /\ Goto(i, "stop", Services)
    BY <1>6 DEF StartFails, TimesOut, Interrupt
  <2> QED BY <1>1, <1>2, <2>1, RunStep DEF Up
<1> QED BY <1>3, <1>4, <1>5, <1>6

(* The steps of a process.                                                     *)
LEMMA ProcessRuns ==
    ASSUME RunsTyped, Handover, NEW i \in Run, NEW s \in Service,
           Listen(i, s) \/ GivesUp(i, s) \/ Crash(i, s) \/ Restart(i, s)
    PROVE  RunsTyped' /\ Handover'
<1>1. /\ disturbed' = disturbed /\ UNCHANGED <<plane, at, answeredBy>>
      /\ child[i][s] # "none"
  BY DEF Listen, GivesUp, Crash, Restart, Alive, history
<1>2. PICK state \in {"booting", "listening", "exited"} : SetProc(i, s, state)
  BY DEF Listen, GivesUp, Crash, Restart
<1> QED BY <1>1, <1>2, ProcessStep

\* The types of the other variables.
FilesTyped ==
    /\ binary \in [Service -> {"none", "writing", "partial", "whole"}]
    /\ config \in [Service -> {"none", "torn", "whole"}]
    /\ downloads \in 0..MaxDownloads /\ faults \in 0..MaxFaults

(* Downloads and configuration files keep their types, and counters their      *)
(* bounds.                                                                     *)
LEMMA FilesStep ==
    ASSUME RunsTyped, FilesTyped, LauncherNext
    PROVE  FilesTyped'
<1>1. binary' \in [Service -> {"none", "writing", "partial", "whole"}]
  BY DEF FilesTyped, LauncherNext, DownloadBegins, DownloadEnds, Begin, Step,
         TruncateConfig, WriteConfig, WriteConfigFails, Start, StartFails,
         BecomesHealthy, TimesOut, Interrupt, StopService, Kill, Listen,
         GivesUp, Crash, Restart, files
<1>2. config' \in [Service -> {"none", "torn", "whole"}]
  BY DEF FilesTyped, LauncherNext, DownloadBegins, DownloadEnds, Begin, Step,
         TruncateConfig, WriteConfig, WriteConfigFails, Start, StartFails,
         BecomesHealthy, TimesOut, Interrupt, StopService, Kill, Listen,
         GivesUp, Crash, Restart, files
<1>3. downloads' = downloads \/ (downloads < MaxDownloads /\ downloads' = downloads + 1)
  BY DEF LauncherNext, DownloadBegins, DownloadEnds, Begin, Step,
         TruncateConfig, WriteConfig, WriteConfigFails, Start, StartFails,
         BecomesHealthy, TimesOut, Interrupt, StopService, Kill, Listen,
         GivesUp, Crash, Restart
<1>4. faults' = faults \/ (faults < MaxFaults /\ faults' = faults + 1)
  BY DEF LauncherNext, DownloadBegins, DownloadEnds, Begin, Step,
         TruncateConfig, WriteConfig, WriteConfigFails, Start, StartFails,
         BecomesHealthy, TimesOut, Interrupt, StopService, Kill, Listen,
         GivesUp, Crash, Restart, Fault
<1>5. downloads' \in 0..MaxDownloads /\ faults' \in 0..MaxFaults
  BY <1>3, <1>4, LauncherAssumption DEF FilesTyped
<1> QED BY <1>1, <1>2, <1>5 DEF FilesTyped

(* Every step keeps the runs apart.                                            *)
LEMMA NextRuns ==
    ASSUME RunsInv, [LauncherNext]_launcherVars
    PROVE  RunsInv'
<1>1. RunsTyped /\ FilesTyped /\ Handover
  BY Zenon DEF RunsInv, LauncherTypeOK, RunsTyped, FilesTyped
<1>2. disturbed \in BOOLEAN
  BY Zenon DEF RunsInv, LauncherTypeOK
<1>3. CASE UNCHANGED launcherVars
  <2>1. UNCHANGED <<binary, config, plane, at, child, answeredBy, downloads, faults>>
    BY <1>3 DEF launcherVars, files, history
  <2>2. disturbed' = disturbed
    BY <1>3 DEF launcherVars, history
  <2>3. LauncherTypeOK'
    <3>1. RunsTyped'
      BY <1>1, <2>1 DEF RunsTyped
    <3>2. FilesTyped'
      BY <1>1, <2>1 DEF FilesTyped
    <3>3. disturbed' \in BOOLEAN
      BY <1>2, <2>2, Zenon
    <3> QED BY <3>1, <3>2, <3>3, Zenon DEF LauncherTypeOK, RunsTyped, FilesTyped
  <2>4. ASSUME OneRunUp, NoneOutside, NoneAbove, OwnAnswer
        PROVE  OneRunUp' /\ NoneOutside' /\ NoneAbove' /\ OwnAnswer'
    BY <2>1, <2>4 DEF OneRunUp, Up, NoneOutside, NoneAbove, OwnAnswer
  <2> QED BY <1>1, <2>2, <2>3, <2>4, Zenon DEF RunsInv, Handover
<1>4. CASE LauncherNext
  <2>1. RunsTyped' /\ Handover'
    <3>1. CASE DownloadBegins \/ DownloadEnds
      <4>1. UNCHANGED <<plane, at, child, answeredBy>> /\ disturbed' = disturbed
        BY <3>1 DEF DownloadBegins, DownloadEnds, history
      <4>2. RunsTyped'
        BY <1>1, <4>1 DEF RunsTyped
      <4>3. ASSUME OneRunUp, NoneOutside, NoneAbove, OwnAnswer
            PROVE  OneRunUp' /\ NoneOutside' /\ NoneAbove' /\ OwnAnswer'
        BY <4>1, <4>3 DEF OneRunUp, Up, NoneOutside, NoneAbove, OwnAnswer
      <4> QED BY <1>1, <4>1, <4>2, <4>3, Zenon DEF Handover
    <3>2. ASSUME NEW i \in Run, Begin(i)
          PROVE  RunsTyped' /\ Handover'
      BY <1>1, <3>2, BeginRuns
    <3>3. ASSUME NEW i \in Run, Step(i)
          PROVE  RunsTyped' /\ Handover'
      BY <1>1, <3>3, MoveRuns, StartRuns, HealthyRuns, StopRuns DEF Step
    <3>4. ASSUME NEW i \in Run, WriteConfigFails(i) \/ Interrupt(i)
          PROVE  RunsTyped' /\ Handover'
      BY <1>1, <3>4, MoveRuns
    <3>5. ASSUME NEW i \in Run, Kill(i)
          PROVE  RunsTyped' /\ Handover'
      BY <1>1, <3>5, KillRuns
    <3>6. ASSUME NEW i \in Run, NEW s \in Service,
                 Listen(i, s) \/ GivesUp(i, s) \/ Crash(i, s) \/ Restart(i, s)
          PROVE  RunsTyped' /\ Handover'
      BY <1>1, <3>6, ProcessRuns
    <3> QED BY <1>4, <3>1, <3>2, <3>3, <3>4, <3>5, <3>6 DEF LauncherNext
  <2>2. FilesTyped'
    BY <1>1, <1>4, FilesStep
  <2>3. disturbed' \in BOOLEAN
    BY <1>2, <1>4, Zenon
       DEF LauncherNext, DownloadBegins, DownloadEnds, Begin, Step,
           TruncateConfig, WriteConfig, WriteConfigFails, Start, StartFails,
           BecomesHealthy, TimesOut, Interrupt, StopService, Kill, Listen,
           GivesUp, Crash, Restart, history
  <2> QED BY <2>1, <2>2, <2>3, Zenon DEF RunsInv, LauncherTypeOK, RunsTyped, FilesTyped
<1> QED BY <1>3, <1>4

(* As long as no run is killed or overlaps another, no process outlives its    *)
(* run and no run's health check is answered by another's process.             *)
THEOREM RunsInvariance == LauncherSpec => []RunsInv
<1>1. LauncherInit => RunsInv
  BY InitRuns
<1>2. RunsInv /\ [LauncherNext]_launcherVars => RunsInv'
  BY NextRuns
<1> QED BY <1>1, <1>2, PTL DEF LauncherSpec

(* The runs, their services, files and histories keep their types, for every   *)
(* number of runs and services.                                                *)
THEOREM RunsTypeCorrect == LauncherSpec => []LauncherTypeOK
<1>1. RunsInv => LauncherTypeOK
  BY DEF RunsInv
<1> QED BY <1>1, RunsInvariance, PTL

(* bootstrap.go's exits all go through Stop, except for a kill: as long as     *)
(* runs follow one another and none is killed, a run that ended has left no    *)
(* service, and the next one's health check is answered by its own.            *)
THEOREM RunsHandOver == LauncherSpec => []CleanHandover
<1>1. RunsInv => CleanHandover
  <2>1. ASSUME NoneOutside, OwnAnswer, NEW i \in Run, NEW s \in Service
        PROVE  /\ ~Up(i) => ~Alive(child[i][s])
               /\ answeredBy[i][s] \in {0, i}
    BY <2>1 DEF NoneOutside, OwnAnswer, Up, Alive
  <2> QED BY <2>1, Zenon DEF RunsInv, Handover, CleanHandover
<1> QED BY <1>1, RunsInvariance, PTL
=============================================================================
