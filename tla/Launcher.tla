------------------------------ MODULE Launcher ------------------------------
(***************************************************************************)
(* `herminas run`: runControlPlane of bootstrap.go, and what                *)
(* engine/clickhouse and engine/redpanda share between one run and the     *)
(* next: the binary, the configuration file and the port of each service.  *)
(*                                                                         *)
(* A run may begin while another is up, or after one was killed and left   *)
(* its services behind.  A health check asks whoever listens on the port.  *)
(* The interleavings of one supervisor's Start, watch and Stop are module  *)
(* Supervisor's; here each service is stopped in one step, which hangs     *)
(* when the service's watch sleeps in its backoff.                         *)
(***************************************************************************)
EXTENDS Integers

CONSTANTS
    Services,     \* services in start order: 2 on Linux (Redpanda, ClickHouse), else 1
    MaxRuns,      \* bound: how often the control plane is run
    MaxDownloads, \* bound: calls of clickhouse.Download
    MaxFaults     \* bound: killed runs, crashed services, failed writes and downloads

ASSUME LauncherAssumption ==
    /\ Services \in Nat \ {0}
    /\ MaxRuns \in Nat /\ MaxDownloads \in Nat /\ MaxFaults \in Nat

Service == 1..Services
ClickHouse == Services
Run == 1..MaxRuns

VARIABLES
    binary,     \* the executable of each service
    config,     \* its configuration file
    plane,      \* where runControlPlane is in each run
    at,         \* the service it is at
    child,      \* the process each run started for each service
    answeredBy, \* history: the run whose process passed a run's health check
    disturbed,  \* history: a run was killed, or began while another was up
    downloads,
    faults

files   == <<binary, config>>
history == <<answeredBy, disturbed>>
launcherVars == <<files, plane, at, child, history, downloads, faults>>

Up(i)    == plane[i] \notin {"new", "off"}
Alive(p) == p \in {"booting", "listening"}

\* The answer of healthCheck: /ping and a witness query, or the admin API.
Answered(s) == \E j \in Run : child[j][s] = "listening"

Usable(s) == binary[s] = "whole" /\ config[s] = "whole"

\* Redpanda's binary is there or not: its Download is not wired.
LauncherInit ==
    /\ binary \in [Service -> {"none", "whole"}]
    /\ config = [s \in Service |-> "none"]
    /\ plane = [i \in Run |-> "new"] /\ at = [i \in Run |-> 1]
    /\ child = [i \in Run |-> [s \in Service |-> "none"]]
    /\ answeredBy = [i \in Run |-> [s \in Service |-> 0]]
    /\ disturbed = FALSE /\ downloads = 0 /\ faults = 0

Fault == faults < MaxFaults /\ faults' = faults + 1

Goto(i, where, s) == plane' = [plane EXCEPT ![i] = where] /\ at' = [at EXCEPT ![i] = s]

SetProc(i, s, state) == child' = [child EXCEPT ![i][s] = state]

----------------------------------------------------------------------------
(* clickhouse.Download, into the file the control plane runs. *)

\* O_TRUNC, which fails while the file is being executed.
DownloadBegins ==
    /\ downloads < MaxDownloads /\ downloads' = downloads + 1
    /\ binary[ClickHouse] # "writing"
    /\ \A i \in Run : ~Alive(child[i][ClickHouse])
    /\ binary' = [binary EXCEPT ![ClickHouse] = "writing"]
    /\ UNCHANGED <<config, plane, at, child, history, faults>>

\* io.Copy ends, or fails and leaves what it has written.
DownloadEnds ==
    /\ binary[ClickHouse] = "writing"
    /\ \/ binary' = [binary EXCEPT ![ClickHouse] = "whole"] /\ UNCHANGED faults
       \/ binary' = [binary EXCEPT ![ClickHouse] = "partial"] /\ Fault
    /\ UNCHANGED <<config, plane, at, child, history, downloads>>

----------------------------------------------------------------------------
(* runControlPlane. *)

Begin(i) ==
    /\ plane[i] = "new" /\ \A j \in 1..(i - 1) : plane[j] # "new"
    /\ Goto(i, "configure", 1)
    /\ disturbed' = (disturbed \/ \E j \in Run : Up(j))
    /\ UNCHANGED <<files, child, answeredBy, downloads, faults>>

\* GenerateConfig overwrites the file in place: first it truncates it ...
TruncateConfig(i) ==
    /\ plane[i] = "configure"
    /\ config' = [config EXCEPT ![at[i]] = "torn"]
    /\ Goto(i, "write", at[i])
    /\ UNCHANGED <<binary, child, history, downloads, faults>>

\* ... then it writes it.  After the last one os.Stat looks for ClickHouse's binary.
WriteConfig(i) ==
    /\ plane[i] = "write"
    /\ config' = [config EXCEPT ![at[i]] = "whole"]
    /\ IF at[i] < Services THEN Goto(i, "configure", at[i] + 1)
       ELSE Goto(i, IF binary[ClickHouse] = "none" THEN "off" ELSE "start", 1)
    /\ UNCHANGED <<binary, child, history, downloads, faults>>

\* The disk is full: exitf.
WriteConfigFails(i) ==
    /\ plane[i] = "write" /\ Fault
    /\ Goto(i, "off", at[i])
    /\ UNCHANGED <<files, child, history, downloads>>

\* Whether fork and exec succeed.  A file being written is busy; half a binary may
\* be refused by the kernel, or start and die.
ExecCan(s)     == binary[s] \in {"partial", "whole"}
ExecCanFail(s) == binary[s] # "whole"

\* Supervisor.Start begins with the next service.
Start(i) ==
    /\ plane[i] = "start" /\ ExecCan(at[i])
    /\ SetProc(i, at[i], "booting")
    /\ Goto(i, "await", at[i])
    /\ UNCHANGED <<files, history, downloads, faults>>

\* Mutation: the control plane exits without Stop.
StartFails_Exits(i) ==
    /\ plane[i] = "start" /\ ExecCanFail(at[i])
    /\ Goto(i, "off", Services)
    /\ UNCHANGED <<files, child, history, downloads, faults>>

\* It cannot be started: Stop what is up, and exit.
StartFails(i) ==
    /\ plane[i] = "start" /\ ExecCanFail(at[i])
    /\ Goto(i, "stop", Services)
    /\ UNCHANGED <<files, child, history, downloads, faults>>

\* awaitHealthy gets a good answer, from whichever process.
BecomesHealthy(i) ==
    /\ plane[i] = "await"
    /\ \E j \in Run : /\ child[j][at[i]] = "listening"
                      /\ answeredBy' = [answeredBy EXCEPT ![i][at[i]] = j]
    /\ IF at[i] < Services THEN Goto(i, "start", at[i] + 1) ELSE Goto(i, "run", Services)
    /\ UNCHANGED <<files, child, disturbed, downloads, faults>>

\* awaitHealthy's deadline.
TimesOut(i) ==
    /\ plane[i] = "await" /\ ~Answered(at[i])
    /\ Goto(i, "stop", Services)
    /\ UNCHANGED <<files, child, history, downloads, faults>>

\* SIGINT or SIGTERM ends awaitHealthy, or the wait that follows Start.
Interrupt(i) ==
    /\ plane[i] \in {"await", "run"}
    /\ Goto(i, "stop", Services)
    /\ UNCHANGED <<files, child, history, downloads, faults>>

\* Mutation: the loop over the services stops one too late.
StopService_OffByOne(i) ==
    /\ plane[i] = "stop"
    /\ IF at[i] \in Service
       THEN SetProc(i, at[i], "none") /\ Goto(i, "stop", at[i] - 1)
       ELSE UNCHANGED child /\ Goto(i, "off", 1)
    /\ UNCHANGED <<files, history, downloads, faults>>

\* Supervisor.Stop, one service.  One that has exited is not stopped: its watch
\* either finds `stopping` set and ends, or sleeps before a restart, and Stop waits
\* for a watch that will never end.
StopService(i) ==
    /\ plane[i] = "stop"
    /\ \/ /\ SetProc(i, at[i], "none")
          /\ IF at[i] > 1 THEN Goto(i, "stop", at[i] - 1) ELSE Goto(i, "off", 1)
       \/ /\ child[i][at[i]] = "exited"
          /\ Goto(i, "hung", at[i]) /\ UNCHANGED child
    /\ UNCHANGED <<files, history, downloads, faults>>

\* kill -9, or the signals that no handler catches before Start: the services of
\* the run are left to themselves.
Kill(i) ==
    /\ Up(i) /\ Fault
    /\ Goto(i, "off", at[i])
    /\ disturbed' = TRUE
    /\ UNCHANGED <<files, child, answeredBy, downloads>>

----------------------------------------------------------------------------
(* The services, and the watch of the run that started them. *)

Listen(i, s) ==
    /\ child[i][s] = "booting" /\ Usable(s) /\ ~Answered(s)
    /\ SetProc(i, s, "listening")
    /\ UNCHANGED <<files, plane, at, history, downloads, faults>>

\* A bad binary, a bad file, or a port that is taken.
GivesUp(i, s) ==
    /\ child[i][s] = "booting" /\ (Usable(s) => Answered(s))
    /\ SetProc(i, s, "exited")
    /\ UNCHANGED <<files, plane, at, history, downloads, faults>>

Crash(i, s) ==
    /\ Alive(child[i][s]) /\ Fault
    /\ SetProc(i, s, "exited")
    /\ UNCHANGED <<files, plane, at, history, downloads>>

\* Mutation: the watch ends when awaitHealthy has returned.
Restart_WhileAwaited(i, s) ==
    /\ plane[i] = "await" /\ child[i][s] = "exited" /\ ExecCan(s)
    /\ SetProc(i, s, "booting")
    /\ UNCHANGED <<files, plane, at, history, downloads, faults>>

\* watch starts the service again; when that fails, it tries again.
Restart(i, s) ==
    /\ Up(i) /\ child[i][s] = "exited" /\ ExecCan(s)
    /\ SetProc(i, s, "booting")
    /\ UNCHANGED <<files, plane, at, history, downloads, faults>>

Step(i) ==
    \/ TruncateConfig(i) \/ WriteConfig(i)
    \/ Start(i) \/ StartFails(i) \/ BecomesHealthy(i) \/ TimesOut(i) \/ StopService(i)

LauncherNext ==
    \/ DownloadBegins \/ DownloadEnds
    \/ \E i \in Run :
        \/ Begin(i) \/ Step(i) \/ WriteConfigFails(i) \/ Interrupt(i) \/ Kill(i)
        \/ \E s \in Service : Listen(i, s) \/ GivesUp(i, s) \/ Crash(i, s) \/ Restart(i, s)

\* The control plane goes on, a download ends (its client has a timeout), a service
\* that was started listens or exits, and a watch wakes from its backoff.
Fairness ==
    /\ WF_launcherVars(DownloadEnds)
    /\ \A i \in Run :
        /\ WF_launcherVars(Step(i))
        /\ \A s \in Service :
            WF_launcherVars(Listen(i, s)) /\ WF_launcherVars(GivesUp(i, s)) /\ WF_launcherVars(Restart(i, s))

LauncherSpec == LauncherInit /\ [][LauncherNext]_launcherVars /\ Fairness

----------------------------------------------------------------------------
(* Properties. *)

(* Every variable keeps its type.                                              *)
LauncherTypeOK ==
    /\ binary \in [Service -> {"none", "writing", "partial", "whole"}]
    /\ config \in [Service -> {"none", "torn", "whole"}]
    /\ plane \in [Run -> {"new", "configure", "write", "start", "await", "run",
                          "stop", "hung", "off"}]
    /\ at \in [Run -> Service]
    /\ child \in [Run -> [Service -> {"none", "booting", "listening", "exited"}]]
    /\ answeredBy \in [Run -> [Service -> 0..MaxRuns]]
    /\ disturbed \in BOOLEAN
    /\ downloads \in 0..MaxDownloads /\ faults \in 0..MaxFaults

(* As long as runs follow one another and none is killed, a run that ended has *)
(* no service left, whatever failed or crashed in it, and so the health check  *)
(* of the next one is answered by the process it started itself.               *)
CleanHandover ==
    ~disturbed =>
        \A i \in Run, s \in Service :
            /\ ~Up(i) => ~Alive(child[i][s])
            /\ answeredBy[i][s] \in {0, i}

(* A service of a control plane that stays up is answered for in the end, by a *)
(* process of this run or of another one, unless its binary or its             *)
(* configuration was left damaged: after a crash, and when what was left of an *)
(* earlier run held the port and then went away.                               *)
ServedInTheEnd ==
    \A i \in Run, s \in Service :
        <>[](plane[i] = "run") => <>[](Answered(s) \/ ~Usable(s))

(* exec_process.go: a health check "probes a running process and reports its   *)
(* health": the process that answered is the one this run started.             *)
HealthyIsOwn == \A i \in Run, s \in Service : answeredBy[i][s] \in {0, i}
=============================================================================
