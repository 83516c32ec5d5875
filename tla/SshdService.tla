---------------------------- MODULE SshdService ----------------------------
(***************************************************************************)
(* The Android service that supervises the Dropbear daemon                 *)
(* (SshdService.java), together with what it acts upon:                    *)
(*   - the JNI calls start_sshd / kill / waitpid (jni-dropbear.c),         *)
(*   - the start-up of a daemon: bind, then the pid file (svr-main.c),     *)
(*   - Android's service manager, which turns startService / stopService   *)
(*     into messages for the main looper and restarts a sticky service     *)
(*     after the application process died (external).                      *)
(*                                                                         *)
(* Two Java threads run service code: the main looper thread and the one   *)
(* thread of the static EXECUTOR_SERVICE, which runs the watchdog tasks in *)
(* the order they were submitted.  Every section the code guards by the    *)
(* static `lock' is one step; between two such sections, around fork(),    *)
(* around waitpid() and around execute() the threads interleave.           *)
(*                                                                         *)
(* A pid is handed out again only when nothing remembers it any more: pids  *)
(* wrap around after thousands of forks, the windows below last moments.   *)
(***************************************************************************)
EXTENDS Integers, Sequences

CONSTANTS
    Pid,              \* process ids the kernel can hand out
    Instance,         \* SshdService objects Android can create
    None,             \* null / 0: no pid, no instance
    MIN_DURATION_MS,  \* the watchdog's threshold
    NanosPerMilli,    \* nanoTime() units in one currentTimeMillis() unit
    Epoch,            \* currentTimeMillis() when nanoTime() was 0
    MaxClock,         \* bound: last instant of the clock
    MaxRequests,      \* bound: startService / stopService calls
    MaxFailures,      \* bound: daemons that exit by themselves
    MaxCallFailures,  \* bound: fork() and fopen() that fail
    MaxDeaths,        \* bound: deaths of the application process
    Overlap           \* may commands and failures arrive while the service
                      \* is still busy with the previous one?

ASSUME PidAssumption == None \notin Pid /\ "empty" \notin Pid /\ "absent" \notin Pid
ASSUME InstanceAssumption == None \notin Instance
ASSUME ClockAssumption ==
    /\ MIN_DURATION_MS \in Nat /\ NanosPerMilli \in Nat \ {0} /\ Epoch \in Nat
    /\ MaxClock \in Nat \ {0}
ASSUME BoundAssumption ==
    /\ MaxRequests \in Nat /\ MaxFailures \in Nat /\ MaxCallFailures \in Nat
    /\ MaxDeaths \in Nat /\ Overlap \in BOOLEAN

VARIABLES
    \* the kernel
    proc,           \* life of each process
    killed,         \* processes with a SIGKILL pending
    ours,           \* unreaped children of the present application process
    pidFile,        \* content of dropbear.pid
    clock,          \* System.nanoTime()
    \* Android's service manager and the main looper
    amsStarted,     \* is the service started, as the service manager sees it
    looper,         \* lifecycle messages not yet handled by the main thread
    \* SshdService: statics and the fields of each instance
    sInstance, created, sshdPid, sshdStartTime, sshdDuration,
    \* EXECUTOR_SERVICE and the threads inside startSshd()
    queue,          \* submitted watchdog tasks
    task,           \* the task the executor runs
    pc, self, got,  \* per thread: where it is, `this', the local `pid'
    \* environment counters
    requests, failures, callFailures, deaths

kernelVars == <<proc, killed, ours, pidFile>>
amsVars    == <<amsStarted, looper>>
fieldVars  == <<sInstance, created, sshdPid, sshdStartTime, sshdDuration>>
threadVars == <<queue, task, pc, self, got>>
countVars  == <<requests, failures, callFailures, deaths>>
vars == <<kernelVars, clock, amsVars, fieldVars, threadVars, countVars>>

Thread == {"main", "exec"}
Task   == [inst : Instance, pid : Pid]
NoTask == [inst |-> None, pid |-> None]

\* A daemon in its select loop, with its pid in dropbear.pid or without.
Serving == {"serving", "nofile"}
Holding == {"bound", "pidopen"} \cup Serving    \* phases that hold the port
Alive   == {"forked"} \cup Holding

TypeOK ==
    /\ proc \in [Pid -> Alive \cup {"free", "zombie"}]
    /\ killed \in SUBSET Pid /\ ours \in SUBSET Pid
    /\ pidFile \in Pid \cup {"absent", "empty"}
    /\ clock \in 1..MaxClock
    /\ amsStarted \in BOOLEAN
    /\ looper \in Seq({"create", "start", "destroy"})
    /\ sInstance \in Instance \cup {None} /\ created \in SUBSET Instance
    /\ sshdPid \in [Instance -> Pid \cup {None}]
    /\ sshdStartTime \in [Instance -> Int] /\ sshdDuration \in [Instance -> Int]
    /\ queue \in Seq(Task) /\ task \in Task \cup {NoTask}
    /\ pc \in [Thread -> {"idle", "wait", "decide", "stop", "fork", "set", "execute"}]
    /\ self \in [Thread -> Instance \cup {None}]
    /\ got \in [Thread -> Pid \cup {None}]
    /\ requests \in Nat /\ failures \in Nat /\ callFailures \in Nat /\ deaths \in Nat

Init ==
    /\ proc = [p \in Pid |-> "free"]
    /\ killed = {} /\ ours = {} /\ pidFile = "absent" /\ clock = 1
    /\ amsStarted = FALSE /\ looper = <<>>
    /\ sInstance = None /\ created = {}
    /\ sshdPid = [i \in Instance |-> None]
    /\ sshdStartTime = [i \in Instance |-> 0]
    /\ sshdDuration = [i \in Instance |-> 0]
    /\ queue = <<>> /\ task = NoTask
    /\ pc = [t \in Thread |-> "idle"]
    /\ self = [t \in Thread |-> None] /\ got = [t \in Thread |-> None]
    /\ requests = 0 /\ failures = 0 /\ callFailures = 0 /\ deaths = 0

-----------------------------------------------------------------------------
(* Auxiliary notions.                                                      *)

Live == {p \in Pid : proc[p] \in Alive}

Kill_Omitted(p) == killed' = killed

\* What kill(pid, SIGKILL) reaches: a process that is still there, or nothing.
Kill(p) == killed' = killed \cup ({p} \cap Live)

\* A child of ours stays a zombie until waitpid(); init reaps the others.
Exits(p) ==
    /\ proc' = [proc EXCEPT ![p] = IF p \in ours THEN "zombie" ELSE "free"]
    /\ killed' = killed \ {p}

\* Some variable or file still holds the pid of an earlier process.
Remembered(p) == p = pidFile \/ p = task.pid \/ \E i \in Instance : sshdPid[i] = p

\* isRunning(): what the user interface, the tile and the intents are told.
IsRunning == sInstance # None /\ sshdPid[sInstance] # None

\* Nothing is under way: every daemon serves, both threads are at rest.
Settled ==
    /\ looper = <<>> /\ pc["main"] = "idle"
    /\ \/ pc["exec"] = "wait"
       \/ pc["exec"] = "idle" /\ queue = <<>>
    /\ \A p \in Pid : proc[p] \in Alive \cup {"zombie"} =>
                          proc[p] \in Serving /\ p \notin killed

Timely == Overlap \/ Settled

-----------------------------------------------------------------------------
(* Android's service manager.                                              *)

\* SshdService.startService(): the service manager creates the service when it
\* is not started and delivers the start command in either case.
StartService ==
    /\ Timely /\ requests < MaxRequests
    /\ requests' = requests + 1
    /\ looper' = looper \o (IF amsStarted THEN <<"start">> ELSE <<"create", "start">>)
    /\ amsStarted' = TRUE
    /\ UNCHANGED <<kernelVars, clock, fieldVars, threadVars, failures, callFailures, deaths>>

\* SshdService.stopService()
StopService ==
    /\ Timely /\ requests < MaxRequests /\ amsStarted
    /\ requests' = requests + 1
    /\ looper' = Append(looper, "destroy")
    /\ amsStarted' = FALSE
    /\ UNCHANGED <<kernelVars, clock, fieldVars, threadVars, failures, callFailures, deaths>>

\* The application process is gone: its threads, objects and statics with it.
\* Its children go on under init.  A started service is sticky.
ProcessGone ==
    /\ ours' = {}
    /\ proc' = [p \in Pid |-> IF proc[p] = "zombie" THEN "free" ELSE proc[p]]
    /\ sInstance' = None
    /\ sshdPid' = [i \in Instance |-> None]
    /\ sshdStartTime' = [i \in Instance |-> 0]
    /\ sshdDuration' = [i \in Instance |-> 0]
    /\ queue' = <<>> /\ task' = NoTask
    /\ pc' = [t \in Thread |-> "idle"]
    /\ self' = [t \in Thread |-> None] /\ got' = [t \in Thread |-> None]
    /\ looper' = IF amsStarted THEN <<"create", "start">> ELSE <<>>
    /\ UNCHANGED <<killed, pidFile, clock, amsStarted, created>>

AppDies ==
    /\ Timely /\ deaths < MaxDeaths
    /\ deaths' = deaths + 1
    /\ ProcessGone
    /\ UNCHANGED <<requests, failures, callFailures>>

-----------------------------------------------------------------------------
(* Lifecycle callbacks, on the main thread.                                *)

Handles(msg) == pc["main"] = "idle" /\ looper # <<>> /\ Head(looper) = msg

\* onCreate(): under the lock, adopt the pid in dropbear.pid and kill it.
OnCreate ==
    /\ Handles("create") /\ pidFile # "empty"
    /\ \E i \in Instance \ created :
          /\ created' = created \cup {i}
          /\ sInstance' = i
    /\ Kill(pidFile)
    /\ looper' = Tail(looper)
    /\ UNCHANGED <<proc, ours, pidFile, clock, amsStarted, sshdPid, sshdStartTime,
                   sshdDuration, threadVars, countVars>>

\* readPidFile() on an empty file: parseInt(null) throws an exception nobody
\* catches, inside onCreate(), and the process dies.
OnCreateThrows ==
    /\ Handles("create") /\ pidFile = "empty"
    /\ ProcessGone
    /\ UNCHANGED countVars

\* onStartCommand(): enters startSshd().
OnStartCommand ==
    /\ Handles("start")
    /\ looper' = Tail(looper)
    /\ pc' = [pc EXCEPT !["main"] = "stop"]
    /\ self' = [self EXCEPT !["main"] = sInstance]
    /\ UNCHANGED <<kernelVars, clock, amsStarted, fieldVars, queue, task, got, countVars>>

OnDestroy_NoStopSshd ==
    /\ Handles("destroy")
    /\ looper' = Tail(looper)
    /\ sshdPid' = [sshdPid EXCEPT ![sInstance] = None]
    /\ sInstance' = None
    /\ UNCHANGED <<proc, killed, ours, pidFile, clock, amsStarted, created, sshdStartTime,
                   sshdDuration, threadVars, countVars>>

\* onDestroy(): stopSshd(), then the singleton is forgotten.
OnDestroy ==
    /\ Handles("destroy")
    /\ looper' = Tail(looper)
    /\ Kill(sshdPid[sInstance])
    /\ sshdPid' = [sshdPid EXCEPT ![sInstance] = None]
    /\ sInstance' = None
    /\ UNCHANGED <<proc, ours, pidFile, clock, amsStarted, created, sshdStartTime,
                   sshdDuration, threadVars, countVars>>

-----------------------------------------------------------------------------
(* startSshd(), run by the main thread or by the executor.                 *)

Goto(t, l) == pc' = [pc EXCEPT ![t] = l]

\* stopSshd(): under the lock, forget the pid and kill it.
StopSshd(t) ==
    /\ pc[t] = "stop"
    /\ Kill(sshdPid[self[t]])
    /\ sshdPid' = [sshdPid EXCEPT ![self[t]] = None]
    /\ Goto(t, "fork")
    /\ UNCHANGED <<proc, ours, pidFile, clock, amsVars, sInstance, created, sshdStartTime,
                   sshdDuration, queue, task, self, got, countVars>>

\* start_sshd(): fork(); the child is a process of its own from here on.
Fork(t) ==
    /\ pc[t] = "fork"
    /\ \E p \in Pid :
          /\ proc[p] = "free" /\ ~Remembered(p)
          /\ proc' = [proc EXCEPT ![p] = "forked"]
          /\ ours' = ours \cup {p}
          /\ got' = [got EXCEPT ![t] = p]
    /\ Goto(t, "set")
    /\ UNCHANGED <<killed, pidFile, clock, amsVars, fieldVars, queue, task, self, countVars>>

\* fork() fails: start_sshd() returns -1.
ForkFails(t) ==
    /\ pc[t] = "fork" /\ callFailures < MaxCallFailures
    /\ callFailures' = callFailures + 1
    /\ got' = [got EXCEPT ![t] = None]
    /\ Goto(t, "set")
    /\ UNCHANGED <<kernelVars, clock, amsVars, fieldVars, queue, task, self,
                   requests, failures, deaths>>

AfterSet_NoFailureCheck(t) == "execute"

\* "if (pid == -1)": there is nothing to watch.
AfterSet(t) == IF got[t] = None THEN "idle" ELSE "execute"

\* Under the lock: sshdPid = pid, or 0 when there is none.
SetPid(t) ==
    /\ pc[t] = "set"
    /\ sshdPid' = [sshdPid EXCEPT ![self[t]] = got[t]]
    /\ Goto(t, AfterSet(t))
    /\ UNCHANGED <<kernelVars, clock, amsVars, sInstance, created, sshdStartTime,
                   sshdDuration, queue, task, self, got, countVars>>

Submitted_OnlyWhenIdle(t) ==
    IF pc["exec"] = "wait" THEN <<>> ELSE <<[inst |-> self[t], pid |-> got[t]]>>

Submitted_Twice(t) ==
    <<[inst |-> self[t], pid |-> got[t]], [inst |-> self[t], pid |-> got[t]]>>

\* EXECUTOR_SERVICE.execute(...): one watchdog task for the pid just forked.
Submitted(t) == <<[inst |-> self[t], pid |-> got[t]]>>

Execute(t) ==
    /\ pc[t] = "execute"
    /\ queue' = queue \o Submitted(t)
    /\ got' = [got EXCEPT ![t] = None]
    /\ Goto(t, "idle")
    /\ UNCHANGED <<kernelVars, clock, amsVars, fieldVars, task, self, countVars>>

-----------------------------------------------------------------------------
(* The watchdog task.                                                      *)

CurrentTimeMillis == Epoch + clock \div NanosPerMilli

RestartWanted_NoFirstStart(i) == sshdDuration[i] >= MIN_DURATION_MS

\* The test of the code: sshdDuration and sshdStartTime are nanoTime() values.
RestartWanted(i) ==
    \/ sshdDuration[i] = 0
    \/ sshdDuration[i] >= MIN_DURATION_MS
    \/ CurrentTimeMillis - sshdStartTime[i] >= MIN_DURATION_MS

\* The executor takes the next task, which first records the start time.
TakeTask ==
    /\ pc["exec"] = "idle" /\ queue # <<>>
    /\ task' = Head(queue) /\ queue' = Tail(queue)
    /\ LET i == Head(queue).inst IN
          /\ sshdDuration' = [sshdDuration EXCEPT ![i] =
                IF sshdStartTime[i] = 0 THEN 0 ELSE clock - sshdStartTime[i]]
          /\ sshdStartTime' = [sshdStartTime EXCEPT ![i] = clock]
    /\ Goto("exec", "wait")
    /\ UNCHANGED <<kernelVars, clock, amsVars, sInstance, created, sshdPid, self, got, countVars>>

\* waitpid(pid) returns: the child is reaped (or there is no such child).
Waitpid ==
    /\ pc["exec"] = "wait"
    /\ task.pid \in ours => proc[task.pid] = "zombie"
    /\ proc' = IF task.pid \in ours THEN [proc EXCEPT ![task.pid] = "free"] ELSE proc
    /\ ours' = ours \ {task.pid}
    /\ Goto("exec", "decide")
    /\ UNCHANGED <<killed, pidFile, clock, amsVars, fieldVars, queue, task, self, got,
                   countVars>>

Failed_Inverted == sshdPid[task.inst] # task.pid

\* failed = (sshdPid == pid)
Failed == sshdPid[task.inst] = task.pid

\* Under the lock: was it still the current pid, and shall it be restarted?
Decide ==
    /\ pc["exec"] = "decide"
    /\ LET restart == Failed /\ RestartWanted(task.inst)
       IN  /\ Goto("exec", IF restart THEN "stop" ELSE "idle")
           /\ self' = IF restart THEN [self EXCEPT !["exec"] = task.inst] ELSE self
    /\ sshdPid' = IF Failed THEN [sshdPid EXCEPT ![task.inst] = None] ELSE sshdPid
    /\ task' = NoTask
    /\ UNCHANGED <<kernelVars, clock, amsVars, sInstance, created, sshdStartTime, sshdDuration,
                   queue, got, countVars>>

-----------------------------------------------------------------------------
(* The daemon processes.                                                   *)

PortFree == \A q \in Pid : proc[q] \notin Holding

Bind(p) ==
    /\ proc[p] = "forked" /\ PortFree
    /\ proc' = [proc EXCEPT ![p] = "bound"]
    /\ UNCHANGED <<killed, ours, pidFile, clock, amsVars, fieldVars, threadVars, countVars>>

BindFails_RemovesPidFile(p) ==
    /\ proc[p] = "forked" /\ ~PortFree
    /\ Exits(p)
    /\ pidFile' = "absent"
    /\ UNCHANGED <<ours, clock, amsVars, fieldVars, threadVars, countVars>>

\* "No listening ports available."
BindFails(p) ==
    /\ proc[p] = "forked" /\ ~PortFree
    /\ Exits(p)
    /\ UNCHANGED <<ours, pidFile, clock, amsVars, fieldVars, threadVars, countVars>>

\* fopen(pidfile, "w") truncates; the pid reaches the file with fclose().
OpenPidFile(p) ==
    /\ proc[p] = "bound"
    /\ proc' = [proc EXCEPT ![p] = "pidopen"]
    /\ pidFile' = "empty"
    /\ UNCHANGED <<killed, ours, clock, amsVars, fieldVars, threadVars, countVars>>

\* fopen() fails: the daemon serves all the same, and the file is as it was.
OpenPidFileFails(p) ==
    /\ proc[p] = "bound" /\ callFailures < MaxCallFailures
    /\ callFailures' = callFailures + 1
    /\ proc' = [proc EXCEPT ![p] = "nofile"]
    /\ UNCHANGED <<killed, ours, pidFile, clock, amsVars, fieldVars, threadVars,
                   requests, failures, deaths>>

WritePidFile_NotFlushed(p) ==
    /\ proc[p] = "pidopen"
    /\ proc' = [proc EXCEPT ![p] = "serving"]
    /\ UNCHANGED <<killed, ours, pidFile, clock, amsVars, fieldVars, threadVars, countVars>>

WritePidFile(p) ==
    /\ proc[p] = "pidopen"
    /\ proc' = [proc EXCEPT ![p] = "serving"]
    /\ pidFile' = p
    /\ UNCHANGED <<killed, ours, clock, amsVars, fieldVars, threadVars, countVars>>

\* The daemon exits by itself (dropbear_exit, a crash).
Exit(p) ==
    /\ Timely /\ proc[p] \in Alive /\ failures < MaxFailures
    /\ failures' = failures + 1
    /\ Exits(p)
    /\ UNCHANGED <<ours, pidFile, clock, amsVars, fieldVars, threadVars,
                   requests, callFailures, deaths>>

\* SIGTERM or SIGINT: exitflag, the pid file is removed.
Terminated(p) ==
    /\ Timely /\ proc[p] \in Serving /\ failures < MaxFailures
    /\ failures' = failures + 1
    /\ Exits(p)
    /\ pidFile' = "absent"
    /\ UNCHANGED <<ours, clock, amsVars, fieldVars, threadVars,
                   requests, callFailures, deaths>>

\* SIGKILL takes effect; dropbear.pid stays behind.
Die(p) ==
    /\ p \in killed /\ proc[p] \in Alive
    /\ Exits(p)
    /\ UNCHANGED <<ours, pidFile, clock, amsVars, fieldVars, threadVars, countVars>>

Tick ==
    /\ clock' \in (clock + 1)..MaxClock
    /\ UNCHANGED <<kernelVars, amsVars, fieldVars, threadVars, countVars>>

-----------------------------------------------------------------------------
StartSshd(t) == StopSshd(t) \/ Fork(t) \/ ForkFails(t) \/ SetPid(t) \/ Execute(t)
MainThread == OnCreate \/ OnCreateThrows \/ OnStartCommand \/ OnDestroy \/ StartSshd("main")
ExecThread == TakeTask \/ Waitpid \/ Decide \/ StartSshd("exec")
StartUp(p) ==
    Bind(p) \/ BindFails(p) \/ OpenPidFile(p) \/ OpenPidFileFails(p) \/ WritePidFile(p)

Next ==
    \/ StartService \/ StopService \/ AppDies \/ Tick
    \/ MainThread \/ ExecThread
    \/ \E p \in Pid : StartUp(p) \/ Exit(p) \/ Terminated(p) \/ Die(p)

Spec == Init /\ [][Next]_vars

\* Threads run, a daemon completes its start-up and a SIGKILL is delivered.
\* Commands, failures, deaths and the clock are not assumed to happen.
Fairness ==
    /\ WF_vars(MainThread) /\ WF_vars(ExecThread)
    /\ \A p \in Pid : WF_vars(StartUp(p)) /\ WF_vars(Die(p))

FairSpec == Spec /\ Fairness
-----------------------------------------------------------------------------
(* Properties.                                                             *)

\* p is in the hand of a thread that has still to submit its watchdog, in the
\* executor's queue, or being waited for.
Watched(p) ==
    \/ \E t \in Thread : got[t] = p
    \/ \E k \in DOMAIN queue : queue[k].pid = p
    \/ pc["exec"] = "wait" /\ task.pid = p

\* No child is forgotten: whatever the interleaving of startSshd() on the two
\* threads, a forked daemon that was not reaped has a watchdog to come, so none
\* stays a zombie because nobody will ever call waitpid() for it.
EveryChildWatched == \A p \in ours : Watched(p)

\* waitpid() is only called for a child that is still to be reaped: no pid is
\* submitted twice, so the `status' the JNI function examines was written.
WaitpidHasChild == pc["exec"] = "wait" => task.pid \in ours

\* The pid an instance calls its own always has a watchdog of that same instance
\* still to decide about it: sshdPid can never be left at a dead process by a
\* watchdog that already ran.
TrackedIsWatched ==
    \A i \in Instance : sshdPid[i] # None =>
        \/ \E t \in Thread : pc[t] = "execute" /\ self[t] = i /\ got[t] = sshdPid[i]
        \/ \E k \in DOMAIN queue : queue[k] = [inst |-> i, pid |-> sshdPid[i]]
        \/ pc["exec"] \in {"wait", "decide"} /\ task = [inst |-> i, pid |-> sshdPid[i]]

\* dropbear.pid names the daemon that serves, once that daemon could write it: the
\* next onCreate() kills the right process.
PidFileNamesServer == \A p \in Pid : proc[p] = "serving" => pidFile = p

\* "Kill any stale ssh process from a previous run.": at most one daemon is
\* running that startSshd(), onCreate() or onDestroy() has not killed.
OneDaemon == \A p, q \in Live \ killed : p = q

\* "if both this run AND the previous run lasted less than MIN_DURATION_MS, give
\* up": the same test with both durations in one unit.
Millis(ms) == ms * NanosPerMilli
CrashLoopStops ==
    [][\A i \in Instance :
          (/\ task = [inst |-> i, pid |-> sshdPid[i]] /\ pc["exec"] = "decide"
           /\ sshdDuration[i] \in 1..(Millis(MIN_DURATION_MS) - 1)
           /\ clock - sshdStartTime[i] < Millis(MIN_DURATION_MS))
          => pc'["exec"] # "stop"]_vars

\* A daemon that died is noticed: isRunning() does not go on reporting it.
TrackedDead(i) == sshdPid[i] # None /\ proc[sshdPid[i]] \notin Alive
DeadDaemonNoticed == \A i \in Instance : TrackedDead(i) ~> ~TrackedDead(i)

\* After a death of the application process the sticky service comes back.
StickyServiceReturns == amsStarted ~> (sInstance # None \/ ~amsStarted)

\* A started service ends up with a serving daemon it knows of, through failures
\* of daemons, lost ports and deaths of the application.
Serves == sInstance # None /\ \E p \in Live \ killed : proc[p] \in Serving /\ sshdPid[sInstance] = p
StartedServiceServes == amsStarted ~> (Serves \/ ~amsStarted)

\* A stopped service ends up without any daemon.
StoppedServiceIsGone == ~amsStarted ~> (Live = {} \/ amsStarted)
=============================================================================
