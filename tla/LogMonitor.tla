----------------------------- MODULE LogMonitor -----------------------------
(***************************************************************************)
(* The log on the main screen: ServiceViewModel polls dropbear.err on the  *)
(* one thread of a static executor and posts what it read; MainFragment    *)
(* shows it.  A poll loop runs until the flag cancelRequested of its view  *)
(* model is seen set; the lifecycle of the activity sets and clears it.    *)
(*                                                                         *)
(* A view model belongs to one activity and survives its rotations; the    *)
(* executor belongs to the process.  dropbear.err is a version number.     *)
(***************************************************************************)
EXTENDS Naturals, Sequences, SequencesExt

CONSTANTS
    MaxVms,      \* bound: activities opened, each with its view model
    MaxLog,      \* bound: changes of dropbear.err
    MaxTasks     \* bound: tasks that wait in the executor

ASSUME LogMonitorAssumption ==
    MaxVms \in Nat \ {0} /\ MaxLog \in Nat /\ MaxTasks \in Nat \ {0}

VARIABLES
    log,     \* the version of dropbear.err
    up,      \* SshdService.isRunning()
    ui,      \* the activity: "none", "resumed", "paused" or "finishing"
    screen,  \* the fragment on top: "main" or "settings"
    launched, \* getIntent() of the activity
    cur,     \* the view model of the activity; it was cur-th to be created
    vm,      \* cancelRequested, forceLogUpdate, what is posted and in logData
    queue,   \* the tasks of the executor, by view model; the first one runs
    task     \* the locals of the task that runs

vars == <<log, up, ui, screen, launched, cur, vm, queue, task>>

Vm == 1..MaxVms
Intent == {"MAIN", "START", "STOP"}
NewTask == [at |-> "test", last |-> 0, mod |-> 0]

Init ==
    /\ log = 0 /\ up = FALSE /\ ui = "none" /\ screen = "main" /\ launched = "MAIN" /\ cur = 0
    /\ vm = [v \in Vm |-> [cancel |-> FALSE, force |-> FALSE, posted |-> 0, data |-> 0]]
    /\ queue = <<>> /\ task = NewTask

-----------------------------------------------------------------------------
(* The methods of ServiceViewModel, on the main thread.  They take the view *)
(* models and the queue to the next ones.                                   *)

cancelUpdateThread(s, v) == [s EXCEPT !.vm[v].cancel = TRUE]

startUpdateThread(s, v) == [s EXCEPT !.vm[v].cancel = FALSE, !.queue = Append(@, v)]

\* startService() may throw; it goes on with the monitor when it does not.  All
\* the calls of one callback have the same outcome.
startService(s, v, thrown) ==
    IF thrown THEN cancelUpdateThread(s, v)
    ELSE startUpdateThread(cancelUpdateThread(s, v), v)

forceLogUpdate(s, v) == [s EXCEPT !.vm[v].force = TRUE]

\* MainFragment.onResume(): start on open is a preference.
onResume(s, v, onOpen, thrown) ==
    IF up THEN startUpdateThread(s, v)
    ELSE IF onOpen THEN startService(s, v, thrown) ELSE s

Here == [vm |-> vm, queue |-> queue]
Becomes(s) == vm' = s.vm /\ queue' = s.queue /\ Len(s.queue) <= MaxTasks

-----------------------------------------------------------------------------
(* The activity.                                                           *)

\* MainActivity.handeIntentAction(): what it does, and whether it finishes the
\* activity.  It ignores an intent the preferences do not allow, a START of what
\* runs and a STOP of what was not started by an intent.
handeIntentAction(s, v, a, thrown) ==
    {[s |-> s, finishes |-> FALSE]} \cup
    CASE a = "START" /\ ~up -> {[s |-> startService(s, v, thrown), finishes |-> thrown]}
      [] a = "STOP" /\ up   -> {[s |-> cancelUpdateThread(s, v), finishes |-> TRUE]}
      [] a = "STOP" /\ ~up  -> {[s |-> s, finishes |-> TRUE]}
      [] OTHER -> {}

\* onResume() of the fragment on top; MainFragment's view may be a new one.
Resumed(s, v, top, viewed, thrown) ==
    \E onOpen \in BOOLEAN :
        Becomes(IF top # "main" THEN s
                ELSE onResume(IF viewed THEN forceLogUpdate(s, v) ELSE s, v, onOpen, thrown))

\* onCreate() of the activity, then its fragment, unless it is finished already.
Created(s, v, a, top) ==
    \E thrown \in BOOLEAN : \E h \in handeIntentAction(s, v, a, thrown) :
        /\ IF h.finishes THEN Becomes(h.s) ELSE Resumed(h.s, v, top, TRUE, thrown)
        /\ ui' = IF h.finishes THEN "none" ELSE "resumed"

Launch(a) ==
    /\ ui = "none" /\ cur < MaxVms
    /\ cur' = cur + 1 /\ screen' = "main" /\ launched' = a
    /\ Created(Here, cur + 1, a, "main")
    /\ UNCHANGED <<log, up, task>>

\* In the settings MainFragment has been paused before.
Paused(s) == IF screen = "main" THEN cancelUpdateThread(s, cur) ELSE s

Pause ==
    /\ ui = "resumed"
    /\ ui' = "paused" /\ Becomes(Paused(Here))
    /\ UNCHANGED <<log, up, screen, launched, cur, task>>

Resume ==
    /\ ui = "paused"
    /\ ui' = "resumed"
    /\ \E thrown \in BOOLEAN : Resumed(Here, cur, screen, FALSE, thrown)
    /\ UNCHANGED <<log, up, screen, launched, cur, task>>

OpenSettings ==
    /\ ui = "resumed" /\ screen = "main"
    /\ screen' = "settings" /\ Becomes(Paused(Here))
    /\ UNCHANGED <<log, up, ui, launched, cur, task>>

CloseSettings ==
    /\ ui = "resumed" /\ screen = "settings"
    /\ screen' = "main"
    /\ \E thrown \in BOOLEAN : Resumed(Here, cur, "main", TRUE, thrown)
    /\ UNCHANGED <<log, up, ui, launched, cur, task>>

\* MainFragment.onDestroy() stops a service of the user (stopService()).
Destroyed(s) == {s, cancelUpdateThread(s, cur)}

\* Rotation: paused, destroyed, and back with the same view model and intent.
Rotate ==
    /\ ui = "resumed"
    /\ \E s \in Destroyed(Paused(Here)) : Created(s, cur, launched, screen)
    /\ UNCHANGED <<log, up, screen, launched, cur, task>>

\* The activity is left for good, and its view model with it.
Destroy ==
    /\ ui \in {"paused", "finishing"}
    /\ ui' = "none"
    /\ \E s \in Destroyed(Here) : Becomes(s)
    /\ UNCHANGED <<log, up, screen, launched, cur, task>>

\* The start button.
onMenu ==
    /\ ui = "resumed" /\ screen = "main"
    /\ \E thrown \in BOOLEAN :
           Becomes(IF up THEN cancelUpdateThread(Here, cur) ELSE startService(Here, cur, thrown))
    /\ UNCHANGED <<log, up, ui, screen, launched, cur, task>>

\* A further intent reaches onNewIntent(), whatever is on top, between onPause()
\* and onResume(); the activity comes to the front, or is finished.
onNewIntent(a) ==
    /\ ui \in {"resumed", "paused"}
    /\ \E s \in {IF ui = "resumed" THEN Paused(Here) ELSE Here}, thrown \in BOOLEAN :
       \E h \in handeIntentAction(s, cur, a, thrown) :
          /\ IF h.finishes THEN Becomes(h.s) ELSE Resumed(h.s, cur, screen, FALSE, thrown)
          /\ ui' = IF h.finishes THEN "finishing" ELSE "resumed"
    /\ UNCHANGED <<log, up, screen, launched, cur, task>>

-----------------------------------------------------------------------------
(* The executor.                                                           *)

Test ==
    /\ queue # <<>> /\ task.at = "test"
    /\ IF vm[Head(queue)].cancel
       THEN queue' = Tail(queue) /\ task' = NewTask
       ELSE queue' = queue /\ task' = [task EXCEPT !.at = "stat"]
    /\ UNCHANGED <<log, up, ui, screen, launched, cur, vm>>

\* lastModified() and length(), then the decision to read.
Stat ==
    /\ queue # <<>> /\ task.at = "stat"
    /\ task' = IF vm[Head(queue)].force \/ log # task.last
               THEN [task EXCEPT !.at = "collect", !.mod = log]
               ELSE [task EXCEPT !.at = "sleep"]
    /\ vm' = [vm EXCEPT ![Head(queue)].force = FALSE]
    /\ UNCHANGED <<log, up, ui, screen, launched, cur, queue>>

\* collectLogLines() and postValue(): the file is read after its date.
Collect_DateAfter ==
    /\ queue # <<>> /\ task.at = "collect"
    /\ vm' = [vm EXCEPT ![Head(queue)].posted = task.mod]
    /\ task' = [task EXCEPT !.at = "sleep", !.last = log]
    /\ UNCHANGED <<log, up, ui, screen, launched, cur, queue>>

Collect ==
    /\ queue # <<>> /\ task.at = "collect"
    /\ vm' = [vm EXCEPT ![Head(queue)].posted = log]
    /\ task' = [task EXCEPT !.at = "sleep", !.last = task.mod]
    /\ UNCHANGED <<log, up, ui, screen, launched, cur, queue>>

Wake_NoTest ==
    /\ queue # <<>> /\ task.at = "sleep"
    /\ task' = [task EXCEPT !.at = "stat"]
    /\ UNCHANGED <<log, up, ui, screen, launched, cur, vm, queue>>

Wake ==
    /\ queue # <<>> /\ task.at = "sleep"
    /\ task' = [task EXCEPT !.at = "test"]
    /\ UNCHANGED <<log, up, ui, screen, launched, cur, vm, queue>>

Executor == Test \/ Stat \/ Collect \/ Wake

\* The main thread takes the last value posted; an observer that is not active
\* gets it when it becomes so.
Deliver(v) ==
    /\ vm[v].posted # vm[v].data
    /\ vm' = [vm EXCEPT ![v].data = vm[v].posted]
    /\ UNCHANGED <<log, up, ui, screen, launched, cur, queue, task>>

\* The daemon writes, and the service comes and goes.
LogChanges ==
    /\ log < MaxLog
    /\ log' = log + 1
    /\ UNCHANGED <<up, ui, screen, launched, cur, vm, queue, task>>

ServiceChanges ==
    /\ up' = ~up
    /\ UNCHANGED <<log, ui, screen, launched, cur, vm, queue, task>>

Next ==
    \/ \E a \in Intent : Launch(a) \/ onNewIntent(a)
    \/ Pause \/ Resume \/ OpenSettings \/ CloseSettings \/ Rotate \/ Destroy \/ onMenu
    \/ Executor \/ (\E v \in Vm : Deliver(v))
    \/ LogChanges \/ ServiceChanges

Spec == Init /\ [][Next]_vars

\* The executor's thread and the main looper go on.
FairSpec == Spec /\ WF_vars(Executor) /\ WF_vars(\E v \in Vm : Deliver(v))

-----------------------------------------------------------------------------
(* Properties.                                                             *)

\* The view model of an activity that is gone still polls: it was started by an
\* intent under the settings screen, and nothing cancels it any more.
Abandoned == \E v \in Vm : (v < cur \/ ui = "none") /\ ~vm[v].cancel /\ Contains(queue, v)

Shown == ui = "resumed" /\ screen = "main" /\ Contains(queue, cur) /\ ~vm[cur].cancel

\* While the main screen is shown and monitored, it catches up with the log: no
\* change is lost between the file's date and its lines, or when a loop is
\* cancelled and started anew while it sleeps.
LogCatchesUp ==
    Shown /\ vm[cur].data # log ~> ~Shown \/ vm[cur].data = log \/ Abandoned

\* A monitor that is cancelled leaves the one thread to the next.
CancelledEnds ==
    \A v \in Vm :
        vm[v].cancel ~> ~Contains(queue, v) \/ ~vm[v].cancel \/ Abandoned
=============================================================================
