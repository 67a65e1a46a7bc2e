----------------------------- MODULE Supervisor -----------------------------
(***************************************************************************)
(* engine/supervisor: the ordered list of managed processes, as            *)
(* runControlPlane of bootstrap.go uses it.                                *)
(*                                                                         *)
(* Three kinds of actors: the main goroutine (Start, wait for a signal,    *)
(* Stop), one watch goroutine per started process, and the operating       *)
(* system's processes, which exit when they like.  Process p is regs[p-1]. *)
(* stop() is called with context.Background(), so that the branch of       *)
(* ExecProcess.Stop for a cancelled context is never taken.                *)
(***************************************************************************)
EXTENDS Integers

CONSTANTS
    N,              \* registered processes
    Initial, Multiplier, MaxDelay,   \* Backoff, in units of time
    MaxExits,       \* bound: processes that exit on their own
    MaxStartErrors  \* bound: calls of cmd.Start that fail

ASSUME ConstantsAssumption ==
    /\ N \in Nat \ {0}
    /\ Initial \in Nat \ {0} /\ Multiplier \in Nat \ {0} /\ MaxDelay \in Nat \ {0}
    /\ Initial <= MaxDelay
    /\ MaxExits \in Nat /\ MaxStartErrors \in Nat

Procs == 1..N

VARIABLES
    pc,        \* where main is
    cur,       \* the registration that Start or Stop is at
    signalled, \* ctx is done: SIGINT or SIGTERM arrived
    proc,      \* ExecProcess: no cmd yet, done open, or done closed
    alive,     \* operating system processes that run for it
    healthy,   \* its health check answers "healthy"
    stopping,  \* registration.stopping
    watch,     \* the watch goroutine
    delay,     \* its local variable delay
    wasHealthy,\* history: its health check answered "healthy" at some time
    late,      \* history: restarted after Stop had marked it
    exits, startErrors

mainVars == <<pc, cur, signalled>>
procVars == <<proc, alive, healthy, wasHealthy>>
regVars  == <<stopping, watch, delay, late>>
vars     == <<mainVars, procVars, regVars, exits, startErrors>>

----------------------------------------------------------------------------
Init ==
    /\ pc = "start" /\ cur = 1 /\ signalled = FALSE
    /\ proc = [p \in Procs |-> "none"]
    /\ alive = [p \in Procs |-> 0]
    /\ healthy = [p \in Procs |-> FALSE]
    /\ wasHealthy = [p \in Procs |-> FALSE]
    /\ stopping = [p \in Procs |-> FALSE]
    /\ watch = [p \in Procs |-> "none"]
    /\ delay = [p \in Procs |-> 0]
    /\ late = [p \in Procs |-> FALSE]
    /\ exits = 0 /\ startErrors = 0

\* Mutation: the delay is not capped.
NextDelay_Uncapped(d) == IF d <= 0 THEN Initial ELSE d * Multiplier

\* Backoff.next
NextDelay(d) ==
    IF d <= 0 THEN Initial
    ELSE IF d * Multiplier > MaxDelay THEN MaxDelay ELSE d * Multiplier

\* ExecProcess.Start succeeds: a new cmd with an open done channel.
Launch(p) ==
    /\ proc' = [proc EXCEPT ![p] = "running"]
    /\ alive' = [alive EXCEPT ![p] = @ + 1]
    /\ healthy' = [healthy EXCEPT ![p] = FALSE]
    /\ UNCHANGED wasHealthy

\* The process is gone: the goroutine that waits for it closes done.
Gone(p) ==
    /\ proc' = [proc EXCEPT ![p] = "exited"]
    /\ alive' = [alive EXCEPT ![p] = @ - 1]
    /\ healthy' = [healthy EXCEPT ![p] = FALSE]
    /\ UNCHANGED wasHealthy

----------------------------------------------------------------------------
(* Start. *)

\* One turn of Start's loop up to the call of awaitHealthy.
StartProcess ==
    /\ pc = "start"
    /\ Launch(cur)
    /\ watch' = [watch EXCEPT ![cur] = "wait"]
    /\ pc' = "await"
    /\ UNCHANGED <<cur, signalled, stopping, delay, late, exits, startErrors>>

\* process.Start failed: Start returns the error, main calls Stop.
StartProcessFails ==
    /\ pc = "start" /\ startErrors < MaxStartErrors
    /\ startErrors' = startErrors + 1
    /\ pc' = "mark" /\ cur' = N
    /\ UNCHANGED <<signalled, procVars, regVars, exits>>

\* Mutation: the first poll counts, whatever it says.
AwaitHealthy_Ungated ==
    /\ pc = "await"
    /\ IF cur < N THEN pc' = "start" /\ cur' = cur + 1
                  ELSE pc' = "run" /\ UNCHANGED cur
    /\ UNCHANGED <<signalled, procVars, regVars, exits, startErrors>>

\* awaitHealthy saw the process healthy.
AwaitHealthy ==
    /\ pc = "await" /\ healthy[cur]
    /\ IF cur < N THEN pc' = "start" /\ cur' = cur + 1
                  ELSE pc' = "run" /\ UNCHANGED cur
    /\ UNCHANGED <<signalled, procVars, regVars, exits, startErrors>>

\* awaitHealthy gave up: its deadline passed or ctx is done; main calls Stop.
AwaitFails ==
    /\ pc = "await"
    /\ pc' = "mark" /\ cur' = N
    /\ UNCHANGED <<signalled, procVars, regVars, exits, startErrors>>

Signal ==
    /\ ~signalled
    /\ signalled' = TRUE
    /\ UNCHANGED <<pc, cur, procVars, regVars, exits, startErrors>>

\* <-ctx.Done() in runControlPlane.
Shutdown ==
    /\ pc = "run" /\ signalled
    /\ pc' = "mark" /\ cur' = N
    /\ UNCHANGED <<signalled, procVars, regVars, exits, startErrors>>

----------------------------------------------------------------------------
(* Stop, from the last registration to the first. *)

\* Mutation: Stop does not tell the watch goroutine.
Mark_NoFlag ==
    /\ pc = "mark"
    /\ pc' = "stop"
    /\ UNCHANGED <<cur, signalled, procVars, regVars, exits, startErrors>>

Mark ==
    /\ pc = "mark"
    /\ stopping' = [stopping EXCEPT ![cur] = TRUE]
    /\ pc' = "stop"
    /\ UNCHANGED <<cur, signalled, procVars, watch, delay, late, exits, startErrors>>

\* ExecProcess.Stop: nothing to do, or SIGTERM and wait for done.
StopProcess ==
    /\ pc = "stop"
    /\ pc' = IF proc[cur] = "running" THEN "term" ELSE "join"
    /\ UNCHANGED <<cur, signalled, procVars, regVars, exits, startErrors>>

\* The process obeys SIGTERM, or is killed after stopGrace.
Terminate ==
    /\ pc = "term" /\ proc[cur] = "running"
    /\ Gone(cur)
    /\ UNCHANGED <<mainVars, regVars, exits, startErrors>>

StopReturns ==
    /\ pc = "term" /\ proc[cur] = "exited"
    /\ pc' = "join"
    /\ UNCHANGED <<cur, signalled, procVars, regVars, exits, startErrors>>

\* Mutation: Stop does not wait for the watch goroutine.
Join_NoWait ==
    /\ pc = "join"
    /\ IF cur > 1 THEN pc' = "mark" /\ cur' = cur - 1
                  ELSE pc' = "exit" /\ UNCHANGED cur
    /\ UNCHANGED <<signalled, procVars, regVars, exits, startErrors>>

\* <-reg.watchDone, unless watch was never started; then the previous process.
Join ==
    /\ pc = "join" /\ watch[cur] \in {"none", "done"}
    /\ IF cur > 1 THEN pc' = "mark" /\ cur' = cur - 1
                  ELSE pc' = "exit" /\ UNCHANGED cur
    /\ UNCHANGED <<signalled, procVars, regVars, exits, startErrors>>

----------------------------------------------------------------------------
(* watch. *)

\* Mutation: the watch goroutine goes on while the process runs.
WatchWait_NoWait(p) ==
    /\ watch[p] = "wait"
    /\ watch' = [watch EXCEPT ![p] = "decide"]
    /\ UNCHANGED <<mainVars, procVars, stopping, delay, late, exits, startErrors>>

\* process.Wait() returned.
WatchWait(p) ==
    /\ watch[p] = "wait" /\ proc[p] = "exited"
    /\ watch' = [watch EXCEPT ![p] = "decide"]
    /\ UNCHANGED <<mainVars, procVars, stopping, delay, late, exits, startErrors>>

\* stopping is read once, under the lock; then return or sleep.
WatchDecide(p) ==
    /\ watch[p] = "decide"
    /\ IF stopping[p]
       THEN /\ watch' = [watch EXCEPT ![p] = "done"]
            /\ UNCHANGED delay
       ELSE /\ watch' = [watch EXCEPT ![p] = "backoff"]
            /\ delay' = [delay EXCEPT ![p] = NextDelay(@)]
    /\ UNCHANGED <<mainVars, procVars, stopping, late, exits, startErrors>>

\* The sleep is over and process.Start succeeds.
WatchRestart(p) ==
    /\ watch[p] = "backoff"
    /\ Launch(p)
    /\ watch' = [watch EXCEPT ![p] = "wait"]
    /\ late' = [late EXCEPT ![p] = @ \/ stopping[p]]
    /\ UNCHANGED <<mainVars, stopping, delay, exits, startErrors>>

\* Mutation: the watch goroutine gives up when a restart fails.
WatchRestartFails_GivesUp(p) ==
    /\ watch[p] = "backoff" /\ startErrors < MaxStartErrors
    /\ startErrors' = startErrors + 1
    /\ watch' = [watch EXCEPT ![p] = "done"]
    /\ UNCHANGED <<mainVars, procVars, stopping, delay, late, exits>>

\* The sleep is over and process.Start fails: sleep again.
WatchRestartFails(p) ==
    /\ watch[p] = "backoff" /\ startErrors < MaxStartErrors
    /\ startErrors' = startErrors + 1
    /\ delay' = [delay EXCEPT ![p] = NextDelay(@)]
    /\ UNCHANGED <<mainVars, procVars, stopping, watch, late, exits>>

----------------------------------------------------------------------------
(* The managed processes. *)

BecomeHealthy(p) ==
    /\ proc[p] = "running" /\ ~healthy[p]
    /\ healthy' = [healthy EXCEPT ![p] = TRUE]
    /\ wasHealthy' = [wasHealthy EXCEPT ![p] = TRUE]
    /\ UNCHANGED <<mainVars, proc, alive, regVars, exits, startErrors>>

Exit(p) ==
    /\ proc[p] = "running" /\ exits < MaxExits
    /\ exits' = exits + 1
    /\ Gone(p)
    /\ UNCHANGED <<mainVars, regVars, startErrors>>

----------------------------------------------------------------------------
Watch(p) == WatchWait(p) \/ WatchDecide(p) \/ WatchRestart(p)

Main ==
    \/ StartProcess \/ AwaitHealthy \/ Shutdown
    \/ Mark \/ StopProcess \/ Terminate \/ StopReturns \/ Join

Next ==
    \/ StartProcess \/ StartProcessFails \/ AwaitHealthy \/ AwaitFails
    \/ Signal \/ Shutdown
    \/ Mark \/ StopProcess \/ Terminate \/ StopReturns \/ Join
    \/ \E p \in Procs :
        \/ WatchWait(p) \/ WatchDecide(p) \/ WatchRestart(p) \/ WatchRestartFails(p)
        \/ BecomeHealthy(p) \/ Exit(p)

Spec == Init /\ [][Next]_vars

\* Goroutines are scheduled, sleeps end, and a process told to stop exits (it is
\* killed after stopGrace).  No process has to exit or to become healthy, and no
\* signal has to come.
FairSpec ==
    /\ Spec
    /\ WF_vars(Main)
    /\ \A p \in Procs : WF_vars(Watch(p))

----------------------------------------------------------------------------
(* Properties. *)

StopPhase == {"mark", "stop", "term", "join"}

(* Every variable keeps its type; in particular the delay that Backoff.next    *)
(* doubles never exceeds its maximum.                                          *)
TypeOK ==
    /\ pc \in {"start", "await", "run", "exit"} \cup StopPhase
    /\ cur \in Procs /\ signalled \in BOOLEAN
    /\ proc \in [Procs -> {"none", "running", "exited"}]
    /\ alive \in [Procs -> Nat]
    /\ healthy \in [Procs -> BOOLEAN] /\ wasHealthy \in [Procs -> BOOLEAN]
    /\ stopping \in [Procs -> BOOLEAN]
    /\ watch \in [Procs -> {"none", "wait", "decide", "backoff", "done"}]
    /\ delay \in [Procs -> 0..MaxDelay]
    /\ late \in [Procs -> BOOLEAN]
    /\ exits \in 0..MaxExits /\ startErrors \in 0..MaxStartErrors

(* A restart never overlaps the process it replaces, and Stop never leaves a   *)
(* second one behind: at most one operating system process runs per            *)
(* registration, exactly when its cmd has not exited.                          *)
OneInstance ==
    \A p \in Procs : alive[p] = IF proc[p] = "running" THEN 1 ELSE 0

\* The processes Stop is through with.
StoppedSoFar == {p \in Procs : pc = "exit" \/ (pc \in StopPhase /\ p > cur)}

(* Stop works in reverse order: while it is at process cur, every process      *)
(* behind cur is down for good: it does not run and no watch can restart it.   *)
ReverseStopOrder ==
    \A p \in StoppedSoFar : proc[p] # "running" /\ watch[p] \in {"none", "done"}

(* Start works in order and gates on health: a process has been started only  *)
(* when every process before it was healthy at some time and has a watch that  *)
(* restarts it, also when those exit and come back meanwhile.                  *)
StartIsHealthGated ==
    \A p, q \in Procs : q < p /\ proc[p] # "none" => wasHealthy[q] /\ watch[q] # "none"

(* A process that exited while the supervisor runs is running again or being   *)
(* stopped, eventually: no exit is missed, no watch gives up.                  *)
ExitedIsRestarted ==
    \A p \in Procs : proc[p] = "exited" /\ ~stopping[p] ~> proc[p] = "running" \/ stopping[p]

(* Once Stop is called it returns, or some process was restarted behind its    *)
(* back: there is no other way for Stop to hang.                               *)
StopReturnsUnlessRestarted ==
    pc = "mark" ~> pc = "exit" \/ \E p \in Procs : late[p]

(* supervisor.go: "Stop stops every registered process in reverse start order  *)
(* and waits for each watch goroutine to exit before returning".  It returns.  *)
StopTerminates ==
    pc = "mark" ~> pc = "exit"
=============================================================================
