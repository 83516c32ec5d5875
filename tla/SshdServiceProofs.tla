------------------------ MODULE SshdServiceProofs ------------------------
(***************************************************************************)
(* Theorems about SshdService, for every set of pids and service objects   *)
(* and every bound, with commands, failures and deaths overlapping freely. *)
(***************************************************************************)
EXTENDS SshdService, TLAPS

\* Where each thread can be, and which local variables are meaningful there.
ThreadsOK ==
    /\ pc["main"] \notin {"wait", "decide"}
    /\ pc["main"] # "idle" => sInstance # None /\ self["main"] = sInstance
    /\ pc["exec"] \in {"stop", "fork", "set", "execute"} => self["exec"] \in Instance
    /\ pc["exec"] \in {"wait", "decide"} <=> task # NoTask
    /\ \A t \in Thread : /\ got[t] # None => pc[t] \in {"set", "execute"}
                         /\ pc[t] = "execute" => got[t] # None

\* Is there a service object when the main thread comes to message k?
UpBefore(k) == IF k = 1 THEN sInstance # None ELSE looper[k - 1] # "destroy"

\* A create message arrives when there is no service object, the others when
\* there is one, and the service manager knows how it will end.
LooperOK ==
    /\ \A k \in 1..Len(looper) : looper[k] = "create" <=> ~UpBefore(k)
    /\ amsStarted <=> UpBefore(Len(looper) + 1)

\* Every watchdog, present or to come, is for a child of ours...
WatchersOurs ==
    /\ \A t \in Thread : got[t] # None => got[t] \in ours
    /\ \A k \in 1..Len(queue) : queue[k].pid \in ours

\* ... and no two are for the same child.
WatchersDistinct ==
    /\ got["main"] # None => got["main"] # got["exec"]
    /\ \A t \in Thread, k \in 1..Len(queue) : got[t] # queue[k].pid
    /\ \A j, k \in 1..Len(queue) : queue[j].pid = queue[k].pid => j = k
    /\ pc["exec"] = "wait" =>
          /\ \A t \in Thread : got[t] # task.pid
          /\ \A k \in 1..Len(queue) : queue[k].pid # task.pid

\* A child that was not reaped still occupies its pid.
OursOccupied == \A p \in ours : proc[p] # "free"

IInv ==
    /\ TypeOK /\ ThreadsOK /\ LooperOK /\ WatchersOurs /\ WatchersDistinct /\ OursOccupied
    /\ EveryChildWatched /\ WaitpidHasChild /\ TrackedIsWatched
-----------------------------------------------------------------------------
(* The initial state, and the state of a new application process.          *)

\* Nothing has been started yet.
LEMMA InitIInv == Init => IInv
  <1> SUFFICES ASSUME Init PROVE IInv
    OBVIOUS
  <1> USE PidAssumption, InstanceAssumption, ClockAssumption, BoundAssumption DEF Init
  <1>1. TypeOK
    <2>1. looper \in Seq({"create", "start", "destroy"}) /\ queue \in Seq(Task)
      OBVIOUS
    <2>2. clock \in 1..MaxClock /\ task \in Task \cup {NoTask}
      OBVIOUS
    <2>9. amsStarted \in BOOLEAN
      OBVIOUS
    <2>3. proc \in [Pid -> Alive \cup {"free", "zombie"}]
      BY DEF Alive, Holding, Serving, TypeOK
    <2>4. killed \in SUBSET Pid /\ ours \in SUBSET Pid /\ created \in SUBSET Instance
      BY DEF TypeOK
    <2>5. /\ sshdPid \in [Instance -> Pid \cup {None}]
          /\ sshdStartTime \in [Instance -> Int] /\ sshdDuration \in [Instance -> Int]
      OBVIOUS
    <2>6. /\ pc \in [Thread -> {"idle", "wait", "decide", "stop", "fork", "set", "execute"}]
          /\ self \in [Thread -> Instance \cup {None}] /\ got \in [Thread -> Pid \cup {None}]
      OBVIOUS
    <2>7. pidFile \in Pid \cup {"absent", "empty"} /\ sInstance \in Instance \cup {None}
      BY DEF TypeOK
    <2>8. requests \in Nat /\ failures \in Nat /\ callFailures \in Nat /\ deaths \in Nat
      BY DEF TypeOK
    <2> QED BY <2>1, <2>2, <2>3, <2>4, <2>5, <2>6, <2>7, <2>8, <2>9 DEF TypeOK
  <1>2. ThreadsOK /\ LooperOK
    BY DEF ThreadsOK, LooperOK, UpBefore, Thread
  <1>3. WatchersOurs /\ WatchersDistinct /\ OursOccupied
    BY DEF WatchersOurs, WatchersDistinct, OursOccupied, Thread
  <1>4. EveryChildWatched /\ WaitpidHasChild /\ TrackedIsWatched
    BY DEF EveryChildWatched, WaitpidHasChild, TrackedIsWatched, Thread
  <1> QED BY <1>1, <1>2, <1>3, <1>4 DEF IInv

\* The death of the application process forgets all watchdogs with the children.
LEMMA StepProcessGone ==
  ASSUME IInv, ProcessGone, requests' \in Nat, failures' \in Nat, callFailures' \in Nat, deaths' \in Nat
  PROVE  IInv'
  <1> USE PidAssumption, InstanceAssumption, ClockAssumption, BoundAssumption DEF IInv, ProcessGone
  <1>1. TypeOK'
    <2>1. looper' \in Seq({"create", "start", "destroy"}) /\ queue' \in Seq(Task)
      <3>1. CASE amsStarted
        BY <3>1
      <3>2. CASE ~amsStarted
        BY <3>2
      <3> QED BY <3>1, <3>2
    <2>2. clock' \in 1..MaxClock /\ task' \in Task \cup {NoTask} /\ amsStarted' \in BOOLEAN
      BY DEF TypeOK
    <2>3. proc' \in [Pid -> Alive \cup {"free", "zombie"}]
      BY DEF Alive, Holding, Serving, TypeOK
    <2>4. killed' \in SUBSET Pid /\ ours' \in SUBSET Pid /\ created' \in SUBSET Instance
      BY DEF TypeOK
    <2>5. /\ sshdPid' \in [Instance -> Pid \cup {None}]
          /\ sshdStartTime' \in [Instance -> Int] /\ sshdDuration' \in [Instance -> Int]
      OBVIOUS
    <2>6. /\ pc' \in [Thread -> {"idle", "wait", "decide", "stop", "fork", "set", "execute"}]
          /\ self' \in [Thread -> Instance \cup {None}] /\ got' \in [Thread -> Pid \cup {None}]
      OBVIOUS
    <2>7. pidFile' \in Pid \cup {"absent", "empty"} /\ sInstance' \in Instance \cup {None}
      BY DEF TypeOK
    <2>8. requests' \in Nat /\ failures' \in Nat /\ callFailures' \in Nat /\ deaths' \in Nat
      BY DEF TypeOK
    <2> QED BY <2>1, <2>2, <2>3, <2>4, <2>5, <2>6, <2>7, <2>8 DEF TypeOK
  <1>2. ThreadsOK'
    BY DEF ThreadsOK, Thread
  <1>3. LooperOK'
    BY DEF LooperOK, UpBefore, TypeOK
  <1>4. WatchersOurs' /\ WatchersDistinct' /\ OursOccupied'
    BY DEF WatchersOurs, WatchersDistinct, OursOccupied, Thread
  <1>5. EveryChildWatched' /\ WaitpidHasChild' /\ TrackedIsWatched'
    BY DEF EveryChildWatched, WaitpidHasChild, TrackedIsWatched, Thread
  <1> QED BY <1>1, <1>2, <1>3, <1>4, <1>5

-----------------------------------------------------------------------------
(* The service manager, the clock and the lifecycle callbacks.             *)

\* Handling a message keeps the rest of the looper consistent with sInstance.
LEMMA HandledMessage ==
  ASSUME TypeOK, LooperOK, NEW m, Handles(m), looper' = Tail(looper), amsStarted' = amsStarted,
         sInstance' # None <=> m # "destroy"
  PROVE  LooperOK' /\ (m # "create" => sInstance # None)
  <1>1. Len(looper) \in Nat \ {0} /\ looper[1] = m BY DEF TypeOK, Handles
  <1>2. 1 \in 1..Len(looper) BY <1>1
  <1>3. m = "create" <=> ~UpBefore(1) BY <1>1, <1>2 DEF LooperOK
  <1>4. Len(looper') = Len(looper) - 1 /\ \A k \in 1..Len(looper') : looper'[k] = looper[k+1]
    BY <1>1 DEF TypeOK
  <1>5. \A k \in 1..Len(looper) : UpBefore(k)' <=> UpBefore(k + 1)
    BY <1>1, <1>4 DEF UpBefore
  <1>6. \A k \in 1..Len(looper') : (looper[k + 1] = "create" <=> ~UpBefore(k+1)) /\ k \in 1..Len(looper)
    BY <1>1, <1>4 DEF LooperOK
  <1>7. UpBefore(Len(looper) + 1)' <=> UpBefore(Len(looper) + 1)
    BY <1>1, <1>4, <1>5
  <1>8. LooperOK'
    BY <1>4, <1>5, <1>6, <1>7 DEF LooperOK
  <1> QED BY <1>3, <1>8 DEF UpBefore

\* A start command is delivered to a service that will exist.
LEMMA StepStartService ==
  ASSUME IInv, StartService PROVE IInv'
  <1> USE PidAssumption, InstanceAssumption, ClockAssumption, BoundAssumption
       DEF IInv, StartService, kernelVars, amsVars, fieldVars, threadVars, countVars
  <1>1. TypeOK'
    <2>1. looper \in Seq({"create", "start", "destroy"})
      BY DEF TypeOK
    <2>2. looper' \in Seq({"create", "start", "destroy"})
      <3>1. CASE amsStarted
        BY <2>1, <3>1
      <3>2. CASE ~amsStarted
        BY <2>1, <3>2
      <3> QED BY <3>1, <3>2
    <2>3. amsStarted' \in BOOLEAN /\ requests' \in Nat
      BY DEF TypeOK
    <2> QED BY <2>2, <2>3 DEF TypeOK
  <1>2. LooperOK'
    BY DEF LooperOK, UpBefore, TypeOK, ThreadsOK
  <1>3. ThreadsOK' /\ WatchersOurs' /\ WatchersDistinct' /\ OursOccupied' /\ EveryChildWatched' /\ WaitpidHasChild' /\ TrackedIsWatched'
    BY DEF ThreadsOK, WatchersOurs, WatchersDistinct, OursOccupied, EveryChildWatched, Watched, WaitpidHasChild, TrackedIsWatched
  <1> QED BY <1>1, <1>2, <1>3

\* A stop reaches a service that exists, and nothing after it does.
LEMMA StepStopService ==
  ASSUME IInv, StopService PROVE IInv'
  <1> USE PidAssumption, InstanceAssumption, ClockAssumption, BoundAssumption
       DEF IInv, StopService, kernelVars, amsVars, fieldVars, threadVars, countVars
  <1>1. TypeOK'
    <2>1. looper' \in Seq({"create", "start", "destroy"}) /\ requests' \in Nat
      BY DEF TypeOK
    <2>2. amsStarted' \in BOOLEAN
      OBVIOUS
    <2> QED BY <2>1, <2>2 DEF TypeOK
  <1>2. LooperOK'
    BY DEF LooperOK, UpBefore, TypeOK, ThreadsOK
  <1>3. ThreadsOK' /\ WatchersOurs' /\ WatchersDistinct' /\ OursOccupied' /\ EveryChildWatched' /\ WaitpidHasChild' /\ TrackedIsWatched'
    BY DEF ThreadsOK, WatchersOurs, WatchersDistinct, OursOccupied, EveryChildWatched, Watched, WaitpidHasChild, TrackedIsWatched
  <1> QED BY <1>1, <1>2, <1>3

\* Time passes.
LEMMA StepTick ==
  ASSUME IInv, Tick PROVE IInv'
  <1> USE PidAssumption, InstanceAssumption, ClockAssumption, BoundAssumption
       DEF IInv, Tick, kernelVars, amsVars, fieldVars, threadVars, countVars
  <1>1. TypeOK'
    BY DEF TypeOK, Task, NoTask, Thread, Alive, Holding, Serving
  <1>2. ThreadsOK' /\ LooperOK' /\ WatchersOurs' /\ WatchersDistinct' /\ OursOccupied' /\ EveryChildWatched' /\ WaitpidHasChild' /\ TrackedIsWatched'
    BY DEF ThreadsOK, LooperOK, UpBefore, WatchersOurs, WatchersDistinct, OursOccupied, EveryChildWatched, Watched, WaitpidHasChild, TrackedIsWatched
  <1> QED BY <1>1, <1>2

\* onCreate() makes the object the later messages are for.
LEMMA StepOnCreate ==
  ASSUME IInv, OnCreate PROVE IInv'
  <1> USE PidAssumption, InstanceAssumption, ClockAssumption, BoundAssumption
       DEF IInv, OnCreate, Handles, Kill, Live, kernelVars, amsVars, fieldVars, threadVars, countVars
  <1>a. LooperOK'
    BY HandledMessage DEF TypeOK
  <1>1. TypeOK'
    BY DEF TypeOK, Task, NoTask, Thread, Alive, Holding, Serving
  <1>2. ThreadsOK'
    BY DEF ThreadsOK, TypeOK, Thread, Task, NoTask
  <1>3. LooperOK'
    BY <1>a
  <1>4. WatchersOurs' /\ WatchersDistinct' /\ OursOccupied' /\ EveryChildWatched' /\ WaitpidHasChild' /\ TrackedIsWatched'
    BY DEF WatchersOurs, WatchersDistinct, OursOccupied, EveryChildWatched, Watched, WaitpidHasChild, TrackedIsWatched
  <1> QED BY <1>1, <1>2, <1>3, <1>4

\* onStartCommand() finds a service object.
LEMMA StepOnStartCommand ==
  ASSUME IInv, OnStartCommand PROVE IInv'
  <1> USE PidAssumption, InstanceAssumption, ClockAssumption, BoundAssumption
       DEF IInv, OnStartCommand, Handles, kernelVars, amsVars, fieldVars, threadVars, countVars
  <1>a. LooperOK' /\ sInstance # None
    <2>1. Len(looper) >= 1 /\ looper[1] = "start" /\ sInstance # None
      BY DEF TypeOK, LooperOK, UpBefore
    <2> QED BY <2>1, HandledMessage
  <1>1. TypeOK'
    BY DEF TypeOK, Task, NoTask, Thread, Alive, Holding, Serving
  <1>2. ThreadsOK'
    BY <1>a DEF ThreadsOK, TypeOK, Thread, NoTask
  <1>3. LooperOK'
    BY <1>a
  <1>4. WatchersDistinct'
    BY DEF WatchersDistinct, WatchersOurs, TypeOK, Thread, ThreadsOK
  <1>5. EveryChildWatched'
    BY DEF EveryChildWatched, Watched, TypeOK, ThreadsOK, Thread
  <1>6. WaitpidHasChild'
    BY DEF WaitpidHasChild, TypeOK, Thread
  <1>7. TrackedIsWatched'
    BY DEF TrackedIsWatched, TypeOK, ThreadsOK, Thread, Task, NoTask
  <1>8. WatchersOurs' /\ OursOccupied'
    BY DEF WatchersOurs, OursOccupied
  <1> QED BY <1>1, <1>2, <1>3, <1>4, <1>5, <1>6, <1>7, <1>8

\* onDestroy() leaves the object with no pid.
LEMMA StepOnDestroy ==
  ASSUME IInv, OnDestroy PROVE IInv'
  <1> USE PidAssumption, InstanceAssumption, ClockAssumption, BoundAssumption
       DEF IInv, OnDestroy, Handles, Kill, Live, kernelVars, amsVars, fieldVars, threadVars, countVars
  <1>a. LooperOK' /\ sInstance # None
    BY HandledMessage
  <1>1. TypeOK'
    BY <1>a DEF TypeOK
  <1>2. ThreadsOK'
    BY DEF ThreadsOK, TypeOK, Thread, Task, NoTask
  <1>3. LooperOK'
    BY <1>a
  <1>4. TrackedIsWatched'
    BY <1>a DEF TrackedIsWatched, TypeOK
  <1>5. WatchersOurs' /\ WatchersDistinct' /\ OursOccupied' /\ EveryChildWatched' /\ WaitpidHasChild'
    BY DEF WatchersOurs, WatchersDistinct, OursOccupied, EveryChildWatched, Watched, WaitpidHasChild
  <1> QED BY <1>1, <1>2, <1>3, <1>4, <1>5

-----------------------------------------------------------------------------
(* startSshd() and the watchdog.                                           *)

\* stopSshd() leaves the object with no pid.
LEMMA StepStopSshd ==
  ASSUME NEW t \in Thread, IInv, StopSshd(t) PROVE IInv'
  <1> USE PidAssumption, InstanceAssumption, ClockAssumption, BoundAssumption
       DEF IInv, StopSshd, Goto, Kill, Live, kernelVars, amsVars, fieldVars, threadVars, countVars
  <1>1. TypeOK'
    BY DEF TypeOK, Task, NoTask, Thread, Alive, Holding, Serving
  <1>2. ThreadsOK'
    BY DEF ThreadsOK, TypeOK, Thread, Task, NoTask
  <1>3. WatchersDistinct'
    BY DEF WatchersDistinct, WatchersOurs, TypeOK, Thread, ThreadsOK
  <1>4. EveryChildWatched'
    BY DEF EveryChildWatched, Watched, TypeOK, ThreadsOK, Thread
  <1>5. WaitpidHasChild'
    BY DEF WaitpidHasChild, TypeOK, Thread
  <1>6. TrackedIsWatched'
    BY DEF TrackedIsWatched, TypeOK, ThreadsOK, Thread, Task, NoTask
  <1>7. LooperOK' /\ WatchersOurs' /\ OursOccupied'
    BY DEF LooperOK, UpBefore, WatchersOurs, OursOccupied
  <1> QED BY <1>1, <1>2, <1>3, <1>4, <1>5, <1>6, <1>7

\* fork() returns a pid no watchdog is for.
LEMMA StepFork ==
  ASSUME NEW t \in Thread, IInv, Fork(t) PROVE IInv'
  <1> USE PidAssumption, InstanceAssumption, ClockAssumption, BoundAssumption
       DEF IInv, Fork, Goto, Remembered, kernelVars, amsVars, fieldVars, threadVars, countVars
  <1>a. PICK p \in Pid : /\ proc[p] = "free" /\ proc' = [proc EXCEPT ![p] = "forked"]
                          /\ ours' = ours \cup {p} /\ got' = [got EXCEPT ![t] = p]
    OBVIOUS
  <1>b. p \notin ours /\ got[t] = None
    BY <1>a DEF OursOccupied, ThreadsOK
  <1>1. TypeOK'
    BY <1>a, <1>b DEF TypeOK, Task, NoTask, Thread, Alive, Holding, Serving
  <1>2. ThreadsOK'
    BY <1>a, <1>b DEF ThreadsOK, TypeOK, Thread, Task, NoTask
  <1>3. WatchersOurs'
    BY <1>a, <1>b DEF WatchersOurs, TypeOK, Thread
  <1>4. WatchersDistinct'
    <2>1. \A u \in Thread : got[u] # p
      BY <1>b DEF WatchersOurs, TypeOK
    <2>2. \A k \in 1..Len(queue) : queue[k].pid # p
      BY <1>b DEF WatchersOurs
    <2>3. pc["exec"] = "wait" => task.pid # p
      BY <1>b DEF WaitpidHasChild
    <2> QED BY <1>a, <2>1, <2>2, <2>3 DEF WatchersDistinct, TypeOK, Thread
  <1>5. OursOccupied'
    BY <1>a, <1>b DEF OursOccupied, TypeOK, Alive, Holding, Serving
  <1>6. EveryChildWatched'
    BY <1>a, <1>b DEF EveryChildWatched, Watched, TypeOK, ThreadsOK, Thread
  <1>7. WaitpidHasChild'
    BY <1>a, <1>b DEF WaitpidHasChild, TypeOK, Thread
  <1>8. TrackedIsWatched'
    BY <1>a, <1>b DEF TrackedIsWatched, TypeOK, ThreadsOK, Thread, Task, NoTask
  <1>9. LooperOK'
    BY DEF LooperOK, UpBefore
  <1> QED BY <1>1, <1>2, <1>3, <1>4, <1>5, <1>6, <1>7, <1>8, <1>9

\* A failed fork() leaves no child.
LEMMA StepForkFails ==
  ASSUME NEW t \in Thread, IInv, ForkFails(t) PROVE IInv'
  <1> USE PidAssumption, InstanceAssumption, ClockAssumption, BoundAssumption
       DEF IInv, ForkFails, Goto, kernelVars, amsVars, fieldVars, threadVars, countVars
  <1>1. TypeOK'
    BY DEF TypeOK, Task, NoTask, Thread, Alive, Holding, Serving
  <1>2. ThreadsOK'
    BY DEF ThreadsOK, TypeOK, Thread, Task, NoTask
  <1>3. WatchersOurs'
    BY DEF WatchersOurs, TypeOK, Thread
  <1>4. WatchersDistinct'
    BY DEF WatchersDistinct, WatchersOurs, TypeOK, Thread, ThreadsOK
  <1>5. EveryChildWatched'
    BY DEF EveryChildWatched, Watched, TypeOK, ThreadsOK, Thread
  <1>6. WaitpidHasChild'
    BY DEF WaitpidHasChild, TypeOK, Thread
  <1>7. TrackedIsWatched'
    BY DEF TrackedIsWatched, TypeOK, ThreadsOK, Thread, Task, NoTask
  <1>8. LooperOK' /\ OursOccupied'
    BY DEF LooperOK, UpBefore, OursOccupied
  <1> QED BY <1>1, <1>2, <1>3, <1>4, <1>5, <1>6, <1>7, <1>8

\* The pid that becomes current is in the hand of the thread.
LEMMA StepSetPid ==
  ASSUME NEW t \in Thread, IInv, SetPid(t) PROVE IInv'
  <1> USE PidAssumption, InstanceAssumption, ClockAssumption, BoundAssumption
       DEF IInv, SetPid, Goto, AfterSet, kernelVars, amsVars, fieldVars, threadVars, countVars
  <1>1. TypeOK'
    BY DEF TypeOK, Task, NoTask, Thread, Alive, Holding, Serving
  <1>2. ThreadsOK'
    BY DEF ThreadsOK, TypeOK, Thread, Task, NoTask
  <1>3. WatchersDistinct'
    BY DEF WatchersDistinct, WatchersOurs, TypeOK, Thread, ThreadsOK
  <1>4. EveryChildWatched'
    BY DEF EveryChildWatched, Watched, TypeOK, ThreadsOK, Thread
  <1>5. WaitpidHasChild'
    BY DEF WaitpidHasChild, TypeOK, Thread
  <1>6. TrackedIsWatched'
    BY DEF TrackedIsWatched, TypeOK, ThreadsOK, Thread, Task, NoTask
  <1>7. LooperOK' /\ WatchersOurs' /\ OursOccupied'
    BY DEF LooperOK, UpBefore, WatchersOurs, OursOccupied
  <1> QED BY <1>1, <1>2, <1>3, <1>4, <1>5, <1>6, <1>7

\* The watchdog moves from the hand of the thread to the end of the queue.
LEMMA StepExecute ==
  ASSUME NEW t \in Thread, IInv, Execute(t) PROVE IInv'
  <1> USE PidAssumption, InstanceAssumption, ClockAssumption, BoundAssumption
       DEF IInv, Execute, Goto, Submitted, kernelVars, amsVars, fieldVars, threadVars, countVars
  <1>a. /\ queue' \in Seq(Task) /\ Len(queue') = Len(queue) + 1
        /\ \A k \in 1..Len(queue) : queue'[k] = queue[k]
        /\ queue'[Len(queue) + 1] = [inst |-> self[t], pid |-> got[t]]
    BY DEF TypeOK, ThreadsOK, Task, Thread
  <1>b. Len(queue) \in Nat /\ got[t] \in Pid /\ got' = [got EXCEPT ![t] = None]
    BY DEF TypeOK, ThreadsOK
  <1>1. TypeOK'
    BY <1>a, <1>b DEF TypeOK, Task, NoTask, Thread, Alive, Holding, Serving
  <1>2. ThreadsOK'
    BY <1>a, <1>b DEF ThreadsOK, TypeOK, Thread, Task, NoTask
  <1>3. WatchersOurs'
    BY <1>a, <1>b DEF WatchersOurs, TypeOK, Thread
  <1>c. \A k \in 1..Len(queue') :
           (k \in 1..Len(queue) /\ queue'[k] = queue[k]) \/ (k = Len(queue) + 1 /\ queue'[k].pid = got[t])
    BY <1>a, <1>b
  <1>d. \A u \in Thread : got'[u] = IF u = t THEN None ELSE got[u]
    BY <1>b DEF TypeOK
  <1>e. pc["exec"] = "wait" <=> pc'["exec"] = "wait"
    BY DEF TypeOK, Thread
  <1>4. WatchersDistinct'
    <2>1. got'["main"] # None => got'["main"] # got'["exec"]
      BY <1>b, <1>d DEF WatchersDistinct, Thread
    <2>2. ASSUME NEW u \in Thread, NEW k \in 1..Len(queue') PROVE got'[u] # queue'[k].pid
      <3>0. ASSUME NEW l \in 1..Len(queue) PROVE queue[l].pid \in Pid
        <4>1. queue[l] \in Task
          BY DEF TypeOK
        <4> QED BY <4>1 DEF Task
      <3>1. queue'[k].pid \in Pid
        BY <1>b, <1>c, <3>0
      <3>2. CASE u = t
        BY <1>d, <3>1, <3>2
      <3>3. CASE u # t
        <4>1. got'[u] = got[u] /\ (got[u] # None => got[u] # got[t])
          BY <1>b, <1>d, <3>3 DEF WatchersDistinct, Thread
        <4>2. CASE k \in 1..Len(queue) /\ queue'[k] = queue[k]
          BY <4>1, <4>2 DEF WatchersDistinct
        <4>3. CASE queue'[k].pid = got[t]
          BY <1>b, <4>1, <4>3
        <4> QED BY <1>c, <4>2, <4>3
      <3> QED BY <3>2, <3>3
    <2>3. ASSUME NEW j \in 1..Len(queue'), NEW k \in 1..Len(queue'), queue'[j].pid = queue'[k].pid
          PROVE  j = k
      BY <1>c, <2>3 DEF WatchersDistinct
    <2>4. ASSUME pc'["exec"] = "wait", NEW k \in 1..Len(queue') PROVE queue'[k].pid # task'.pid
      BY <1>c, <1>e, <2>4 DEF WatchersDistinct
    <2>5. ASSUME pc'["exec"] = "wait", NEW u \in Thread PROVE got'[u] # task'.pid
      BY <1>d, <1>e, <2>5 DEF WatchersDistinct, ThreadsOK, TypeOK, Task, NoTask
    <2> QED BY <2>1, <2>2, <2>3, <2>4, <2>5 DEF WatchersDistinct
  <1>5. EveryChildWatched'
    <2> SUFFICES ASSUME NEW p \in ours PROVE Watched(p)'
      BY DEF EveryChildWatched
    <2>1. CASE \E u \in Thread : got[u] = p
      <3>1. PICK u \in Thread : got[u] = p
        BY <2>1
      <3>2. CASE u = t
        BY <1>a, <1>b, <3>1, <3>2 DEF Watched
      <3>3. CASE u # t
        BY <1>d, <3>1, <3>3 DEF Watched
      <3> QED BY <3>2, <3>3
    <2>2. CASE \E k \in DOMAIN queue : queue[k].pid = p
      <3>1. DOMAIN queue = 1..Len(queue) /\ DOMAIN queue' = 1..Len(queue')
        BY <1>a DEF TypeOK
      <3> QED BY <1>a, <1>b, <2>2, <3>1 DEF Watched
    <2>3. CASE pc["exec"] = "wait" /\ task.pid = p
      BY <1>e, <2>3 DEF Watched
    <2> QED BY <2>1, <2>2, <2>3 DEF EveryChildWatched, Watched
  <1>6. WaitpidHasChild'
    BY <1>a, <1>b DEF WaitpidHasChild, TypeOK, Thread
  <1>7. TrackedIsWatched'
    <2> SUFFICES ASSUME NEW i \in Instance, sshdPid[i] # None
                 PROVE  \/ \E u \in Thread : pc'[u] = "execute" /\ self[u] = i /\ got'[u] = sshdPid[i]
                        \/ \E k \in DOMAIN queue' : queue'[k] = [inst |-> i, pid |-> sshdPid[i]]
                        \/ pc'["exec"] \in {"wait", "decide"} /\ task = [inst |-> i, pid |-> sshdPid[i]]
      BY DEF TrackedIsWatched
    <2>0. DOMAIN queue = 1..Len(queue) /\ DOMAIN queue' = 1..Len(queue')
      BY <1>a DEF TypeOK
    <2>1. CASE \E u \in Thread : pc[u] = "execute" /\ self[u] = i /\ got[u] = sshdPid[i]
      <3>1. PICK u \in Thread : pc[u] = "execute" /\ self[u] = i /\ got[u] = sshdPid[i]
        BY <2>1
      <3>2. CASE u = t
        BY <1>a, <1>b, <2>0, <3>1, <3>2
      <3>3. CASE u # t
        BY <1>d, <3>1, <3>3 DEF TypeOK
      <3> QED BY <3>2, <3>3
    <2>2. CASE \E k \in DOMAIN queue : queue[k] = [inst |-> i, pid |-> sshdPid[i]]
      BY <1>a, <1>b, <2>0, <2>2
    <2>3. CASE pc["exec"] \in {"wait", "decide"} /\ task = [inst |-> i, pid |-> sshdPid[i]]
      BY <2>3 DEF TypeOK, Thread
    <2> QED BY <2>1, <2>2, <2>3 DEF TrackedIsWatched
  <1>8. LooperOK' /\ OursOccupied'
    BY DEF LooperOK, UpBefore, OursOccupied
  <1> QED BY <1>1, <1>2, <1>3, <1>4, <1>5, <1>6, <1>7, <1>8

\* The watchdog moves from the head of the queue to the executor.
LEMMA StepTakeTask ==
  ASSUME IInv, TakeTask PROVE IInv'
  <1> USE PidAssumption, InstanceAssumption, ClockAssumption, BoundAssumption
       DEF IInv, TakeTask, Goto, kernelVars, amsVars, fieldVars, threadVars, countVars
  <1>a. /\ Len(queue) \in Nat \ {0} /\ queue' \in Seq(Task) /\ Len(queue') = Len(queue) - 1
        /\ \A k \in 1..Len(queue') : queue'[k] = queue[k + 1]
        /\ task' = queue[1] /\ task' \in Task
    BY DEF TypeOK
  <1>b. /\ pc["exec"] = "idle" /\ pc' = [pc EXCEPT !["exec"] = "wait"]
        /\ \A k \in 1..Len(queue) : k = 1 \/ (k - 1 \in 1..Len(queue') /\ queue'[k - 1] = queue[k])
    BY <1>a
  <1>1. TypeOK'
    <2>1. task'.inst \in Instance /\ clock \in Int
      BY <1>a DEF Task, TypeOK
    <2>2. sshdDuration' \in [Instance -> Int] /\ sshdStartTime' \in [Instance -> Int]
      BY <2>1, <1>a DEF TypeOK
    <2>3. pc' \in [Thread -> {"idle", "wait", "decide", "stop", "fork", "set", "execute"}]
      BY <1>b DEF TypeOK
    <2> QED BY <1>a, <2>2, <2>3 DEF TypeOK
  <1>2. ThreadsOK'
    BY <1>a, <1>b DEF ThreadsOK, TypeOK, Thread, Task, NoTask
  <1>3. WatchersOurs'
    BY <1>a, <1>b DEF WatchersOurs, TypeOK, Thread
  <1>4. WatchersDistinct'
    BY <1>a, <1>b DEF WatchersDistinct, WatchersOurs, TypeOK, Thread, ThreadsOK
  <1>c. DOMAIN queue = 1..Len(queue) /\ DOMAIN queue' = 1..Len(queue') /\ pc'["exec"] = "wait"
    BY <1>a, <1>b DEF TypeOK, Thread
  <1>5. EveryChildWatched'
    <2> SUFFICES ASSUME NEW p \in ours PROVE Watched(p)'
      BY DEF EveryChildWatched
    <2>1. CASE \E u \in Thread : got[u] = p
      BY <2>1 DEF Watched
    <2>2. CASE \E k \in DOMAIN queue : queue[k].pid = p
      <3>1. PICK k \in 1..Len(queue) : queue[k].pid = p
        BY <1>c, <2>2
      <3>2. CASE k = 1
        BY <1>a, <1>c, <3>1, <3>2 DEF Watched
      <3>3. CASE k # 1
        BY <1>b, <1>c, <3>1, <3>3 DEF Watched
      <3> QED BY <3>2, <3>3
    <2> QED BY <1>b, <2>1, <2>2 DEF EveryChildWatched, Watched
  <1>6. WaitpidHasChild'
    BY <1>a DEF WaitpidHasChild, WatchersOurs
  <1>7. TrackedIsWatched'
    <2> SUFFICES ASSUME NEW i \in Instance, sshdPid[i] # None
                 PROVE  \/ \E u \in Thread : pc'[u] = "execute" /\ self[u] = i /\ got[u] = sshdPid[i]
                        \/ \E k \in DOMAIN queue' : queue'[k] = [inst |-> i, pid |-> sshdPid[i]]
                        \/ pc'["exec"] \in {"wait", "decide"} /\ task' = [inst |-> i, pid |-> sshdPid[i]]
      BY DEF TrackedIsWatched
    <2>1. CASE \E u \in Thread : pc[u] = "execute" /\ self[u] = i /\ got[u] = sshdPid[i]
      BY <1>b, <2>1 DEF TypeOK, Thread
    <2>2. CASE \E k \in DOMAIN queue : queue[k] = [inst |-> i, pid |-> sshdPid[i]]
      <3>1. PICK k \in 1..Len(queue) : queue[k] = [inst |-> i, pid |-> sshdPid[i]]
        BY <1>c, <2>2
      <3>2. CASE k = 1
        BY <1>a, <1>c, <3>1, <3>2
      <3>3. CASE k # 1
        BY <1>b, <1>c, <3>1, <3>3
      <3> QED BY <3>2, <3>3
    <2> QED BY <1>b, <2>1, <2>2 DEF TrackedIsWatched
  <1>8. LooperOK' /\ OursOccupied'
    BY DEF LooperOK, UpBefore, OursOccupied
  <1> QED BY <1>1, <1>2, <1>3, <1>4, <1>5, <1>6, <1>7, <1>8

\* The reaped child loses its one watchdog.
LEMMA StepWaitpid ==
  ASSUME IInv, Waitpid PROVE IInv'
  <1> USE PidAssumption, InstanceAssumption, ClockAssumption, BoundAssumption
       DEF IInv, Waitpid, Goto, kernelVars, amsVars, fieldVars, threadVars, countVars
  <1>1. TypeOK'
    BY DEF TypeOK, Task, NoTask, Thread, Alive, Holding, Serving
  <1>2. ThreadsOK'
    BY DEF ThreadsOK, TypeOK, Thread, Task, NoTask
  <1>3. WatchersOurs'
    BY DEF WatchersOurs, WatchersDistinct
  <1>4. WatchersDistinct'
    BY DEF WatchersDistinct, WatchersOurs, TypeOK, Thread, ThreadsOK
  <1>5. OursOccupied'
    BY DEF OursOccupied, TypeOK, Alive, Holding, Serving
  <1>6. EveryChildWatched'
    BY DEF EveryChildWatched, Watched, TypeOK, ThreadsOK, Thread
  <1>7. WaitpidHasChild'
    BY DEF WaitpidHasChild, TypeOK, Thread
  <1>8. TrackedIsWatched'
    BY DEF TrackedIsWatched, TypeOK, ThreadsOK, Thread, Task, NoTask
  <1>9. LooperOK'
    BY DEF LooperOK, UpBefore
  <1> QED BY <1>1, <1>2, <1>3, <1>4, <1>5, <1>6, <1>7, <1>8, <1>9

\* The watchdog that decided was no longer needed.
LEMMA StepDecide ==
  ASSUME IInv, Decide PROVE IInv'
  <1> USE PidAssumption, InstanceAssumption, ClockAssumption, BoundAssumption
       DEF IInv, Decide, Goto, Failed, kernelVars, amsVars, fieldVars, threadVars, countVars
  <1>a. task \in Task /\ task.inst \in Instance
    BY DEF TypeOK, ThreadsOK, Task
  <1>1. TypeOK'
    <2>1. self' \in [Thread -> Instance \cup {None}]
      BY <1>a DEF TypeOK, Thread
    <2>2. sshdPid' \in [Instance -> Pid \cup {None}]
      BY <1>a DEF TypeOK
    <2>3. pc' \in [Thread -> {"idle", "wait", "decide", "stop", "fork", "set", "execute"}]
      BY DEF TypeOK
    <2> QED BY <2>1, <2>2, <2>3 DEF TypeOK
  <1>2. ThreadsOK'
    BY <1>a DEF ThreadsOK, TypeOK, Thread, Task, NoTask
  <1>3. WatchersDistinct'
    BY DEF WatchersDistinct, WatchersOurs, TypeOK, Thread, ThreadsOK
  <1>4. EveryChildWatched'
    BY DEF EveryChildWatched, Watched, TypeOK, ThreadsOK, Thread
  <1>5. WaitpidHasChild'
    BY DEF WaitpidHasChild, TypeOK, Thread
  <1>6. TrackedIsWatched'
    BY <1>a DEF TrackedIsWatched, TypeOK, ThreadsOK, Thread, Task, NoTask
  <1>7. LooperOK' /\ WatchersOurs' /\ OursOccupied'
    BY DEF LooperOK, UpBefore, WatchersOurs, OursOccupied
  <1> QED BY <1>1, <1>2, <1>3, <1>4, <1>5, <1>6, <1>7

-----------------------------------------------------------------------------
(* The daemons.                                                            *)

\* A step of a daemon never frees the pid of a child of ours.
LEMMA StepDaemon ==
  ASSUME NEW p \in Pid, IInv, StartUp(p) \/ Exit(p) \/ Terminated(p) \/ Die(p) PROVE IInv'
  <1> USE PidAssumption DEF IInv, kernelVars, amsVars, fieldVars, threadVars, countVars
  <1>1. \E ph \in Alive \cup {"free", "zombie"} :
           proc' = [proc EXCEPT ![p] = ph] /\ (p \in ours => ph # "free")
    BY DEF StartUp, Bind, BindFails, OpenPidFile, OpenPidFileFails, WritePidFile, Exit, Terminated,
           Die, Exits, Alive, Holding, Serving
  <1>2. /\ ours' = ours /\ clock' = clock /\ killed' \in SUBSET Pid
        /\ pidFile' \in Pid \cup {"absent", "empty"} /\ failures' \in Nat /\ callFailures' \in Nat
        /\ UNCHANGED <<amsVars, fieldVars, threadVars, requests, deaths>>
    BY DEF StartUp, Bind, BindFails, OpenPidFile, OpenPidFileFails, WritePidFile, Exit, Terminated,
           Die, Exits, TypeOK
  <1>3. TypeOK'
    BY <1>1, <1>2 DEF TypeOK
  <1>4. OursOccupied'
    BY <1>1, <1>2 DEF OursOccupied, TypeOK
  <1>5. ThreadsOK' /\ LooperOK' /\ WatchersOurs' /\ WatchersDistinct'
    BY <1>2 DEF ThreadsOK, LooperOK, UpBefore, WatchersOurs, WatchersDistinct
  <1>6. EveryChildWatched' /\ WaitpidHasChild' /\ TrackedIsWatched'
    BY <1>2 DEF EveryChildWatched, Watched, WaitpidHasChild, TrackedIsWatched
  <1> QED BY <1>3, <1>4, <1>5, <1>6

-----------------------------------------------------------------------------
(* The theorems.                                                           *)

\* The invariant is inductive.
LEMMA IInvStep == IInv /\ [Next]_vars => IInv'
  <1> SUFFICES ASSUME IInv, [Next]_vars PROVE IInv'
    OBVIOUS
  <1>1. CASE StartService
    BY <1>1, StepStartService
  <1>2. CASE StopService
    BY <1>2, StepStopService
  <1>3. CASE AppDies
    BY <1>3, StepProcessGone DEF AppDies, IInv, TypeOK
  <1>4. CASE Tick
    BY <1>4, StepTick
  <1>5. CASE MainThread
    <2>1. CASE OnCreate
      BY <2>1, StepOnCreate
    <2>2. CASE OnCreateThrows
      BY <2>2, StepProcessGone DEF OnCreateThrows, countVars, IInv, TypeOK
    <2>3. CASE OnStartCommand
      BY <2>3, StepOnStartCommand
    <2>4. CASE OnDestroy
      BY <2>4, StepOnDestroy
    <2>5. CASE StartSshd("main")
      BY <2>5, StepStopSshd, StepFork, StepForkFails, StepSetPid, StepExecute DEF StartSshd, Thread
    <2> QED BY <1>5, <2>1, <2>2, <2>3, <2>4, <2>5 DEF MainThread
  <1>6. CASE ExecThread
    <2>1. CASE TakeTask
      BY <2>1, StepTakeTask
    <2>2. CASE Waitpid
      BY <2>2, StepWaitpid
    <2>3. CASE Decide
      BY <2>3, StepDecide
    <2>4. CASE StartSshd("exec")
      BY <2>4, StepStopSshd, StepFork, StepForkFails, StepSetPid, StepExecute DEF StartSshd, Thread
    <2> QED BY <1>6, <2>1, <2>2, <2>3, <2>4 DEF ExecThread
  <1>7. CASE \E p \in Pid : StartUp(p) \/ Exit(p) \/ Terminated(p) \/ Die(p)
    BY <1>7, StepDaemon
  <1>8. CASE UNCHANGED vars
    BY <1>8 DEF vars, kernelVars, amsVars, fieldVars, threadVars, countVars, IInv, TypeOK,
                ThreadsOK, LooperOK, UpBefore, WatchersOurs, WatchersDistinct, OursOccupied,
                EveryChildWatched, Watched, WaitpidHasChild, TrackedIsWatched
  <1> QED BY <1>1, <1>2, <1>3, <1>4, <1>5, <1>6, <1>7, <1>8 DEF Next

LEMMA IInvHolds == Spec => []IInv
  BY InitIInv, IInvStep, PTL DEF Spec

\* Every variable keeps its type.
THEOREM TypeCorrect == Spec => []TypeOK
  <1>1. IInv => TypeOK
    BY DEF IInv
  <1> QED BY <1>1, IInvHolds, PTL

\* No interleaving of the two threads loses a child: each daemon that is still to
\* be reaped has a watchdog in the hand of a thread, in the queue or in waitpid().
THEOREM ChildrenWatched == Spec => []EveryChildWatched
  <1>1. IInv => EveryChildWatched
    BY DEF IInv
  <1> QED BY <1>1, IInvHolds, PTL

\* waitpid() never fails for want of a child.
THEOREM WaitpidSound == Spec => []WaitpidHasChild
  <1>1. IInv => WaitpidHasChild
    BY DEF IInv
  <1> QED BY <1>1, IInvHolds, PTL

\* A pid the service reports as running always has a watchdog still to decide.
THEOREM TrackedWatched == Spec => []TrackedIsWatched
  <1>1. IInv => TrackedIsWatched
    BY DEF IInv
  <1> QED BY <1>1, IInvHolds, PTL
-----------------------------------------------------------------------------
(* The port and the pid file.                                              *)

\* Only one process can be past bind(), so only one writes dropbear.pid.
OnePortHolder == \A p, q \in Pid : proc[p] \in Holding /\ proc[q] \in Holding => p = q

PortInv == TypeOK /\ OnePortHolder /\ PidFileNamesServer

\* A step that touches neither the pid file nor a process that holds the port
\* leaves the two as they are.
LEMMA HoldersShrink ==
  ASSUME PortInv, pidFile' = pidFile,
         \A p \in Pid : proc'[p] \in Holding => proc'[p] = proc[p]
  PROVE  OnePortHolder' /\ PidFileNamesServer'
  BY DEF PortInv, OnePortHolder, PidFileNamesServer, Holding, Serving

\* bind() needs the port, and whoever writes the file or removes it holds the port.
LEMMA PortStep == PortInv /\ [Next]_vars => OnePortHolder' /\ PidFileNamesServer'
  <1> SUFFICES ASSUME PortInv, [Next]_vars PROVE OnePortHolder' /\ PidFileNamesServer'
    OBVIOUS
  <1> USE DEF kernelVars, amsVars, fieldVars, threadVars, countVars
  <1>1. CASE StartService \/ StopService \/ Tick \/ UNCHANGED vars
    BY <1>1, HoldersShrink DEF StartService, StopService, Tick, vars
  <1>2. CASE AppDies \/ OnCreateThrows
    BY <1>2, HoldersShrink DEF AppDies, OnCreateThrows, ProcessGone, PortInv, TypeOK, Holding, Serving
  <1>3. CASE OnCreate \/ OnStartCommand \/ OnDestroy \/ TakeTask \/ Decide
    BY <1>3, HoldersShrink DEF OnCreate, OnStartCommand, OnDestroy, TakeTask, Decide
  <1>4. CASE \E t \in Thread : StartSshd(t)
    <2> PICK t \in Thread : StartSshd(t)
      BY <1>4
    <2>1. CASE Fork(t)
      BY <2>1, HoldersShrink DEF Fork, PortInv, TypeOK, Holding, Serving
    <2>2. CASE StopSshd(t) \/ ForkFails(t) \/ SetPid(t) \/ Execute(t)
      BY <2>2, HoldersShrink DEF StopSshd, ForkFails, SetPid, Execute
    <2> QED BY <2>1, <2>2 DEF StartSshd
  <1>5. CASE Waitpid
    BY <1>5, HoldersShrink DEF Waitpid, PortInv, TypeOK, Holding, Serving
  <1>6. ASSUME NEW p \in Pid, StartUp(p) \/ Exit(p) \/ Terminated(p) \/ Die(p)
        PROVE  OnePortHolder' /\ PidFileNamesServer'
    <2>1. CASE Bind(p)
      BY <2>1 DEF Bind, PortFree, PortInv, TypeOK, Holding, Serving, OnePortHolder, PidFileNamesServer
    <2>2. CASE BindFails(p) \/ Exit(p) \/ Die(p)
      BY <2>2, HoldersShrink DEF BindFails, Exit, Die, Exits, PortInv, TypeOK, Holding, Serving
    <2>3. CASE OpenPidFile(p) \/ OpenPidFileFails(p) \/ WritePidFile(p) \/ Terminated(p)
      BY <2>3 DEF OpenPidFile, OpenPidFileFails, WritePidFile, Terminated, Exits, PortInv, TypeOK,
                  Holding, Serving, OnePortHolder, PidFileNamesServer
    <2> QED BY <1>6, <2>1, <2>2, <2>3 DEF StartUp
  <1> QED BY <1>1, <1>2, <1>3, <1>4, <1>5, <1>6 DEF Next, MainThread, ExecThread, Thread

LEMMA PortHolds == Spec => []OnePortHolder /\ []PidFileNamesServer
  <1>1. Init => OnePortHolder /\ PidFileNamesServer
    BY DEF Init, OnePortHolder, PidFileNamesServer, Holding, Serving
  <1>2. TypeOK /\ OnePortHolder /\ PidFileNamesServer /\ [Next]_vars
           => OnePortHolder' /\ PidFileNamesServer'
    BY PortStep DEF PortInv
  <1> QED BY <1>1, <1>2, TypeCorrect, PTL DEF Spec

\* dropbear.pid names the daemon that serves, whatever was killed, restarted or
\* refused the port before: the file onCreate() trusts is never that of a loser.
THEOREM PidFileTruthful == Spec => []PidFileNamesServer
  BY PortHolds, PTL
=============================================================================
