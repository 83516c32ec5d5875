------------------------------ MODULE Launcher ------------------------------
(***************************************************************************)
(* Who starts and stops the service: the main activity and its fragments,  *)
(* the START / STOP intents, the Quick Settings tile, the boot receiver    *)
(* and Android itself.  Every callback runs to its end on the main thread, *)
(* but startService() / stopService() only leave messages for that thread: *)
(* a callback sees the service as the handled messages left it.            *)
(*                                                                         *)
(* SshdService appears through what isRunning() tells: there is no object  *)
(* ("absent"), an object with a daemon ("up") or one without ("down").     *)
(***************************************************************************)
EXTENDS Naturals, Sequences

CONSTANTS
    Togglable,   \* the preferences the user changes in the settings
    MaxMsgs,     \* bound: service messages waiting
    MaxDeaths    \* bound: deaths of the application process

PrefKey == {"boot", "foreground", "onOpen", "intent", "keep"}

ASSUME LauncherAssumption ==
    /\ Togglable \subseteq PrefKey
    /\ MaxMsgs \in Nat /\ MaxDeaths \in Nat

VARIABLES
    prefs,     \* the start-up preferences
    req,       \* the requests made: startMode, what Android was told, messages
    svc,       \* the service object
    activity,  \* MainActivity
    screen,    \* the fragment on top
    vm,        \* has MainFragment had a view (its field vm is set there)?
    launched,  \* getIntent().getAction(): what the activity was launched with
    deaths

vars == <<prefs, req, svc, activity, screen, vm, launched, deaths>>

Mode   == {"ByUser", "ByIntent", "OnBoot"}
Action == {"MAIN", "START", "STOP"}

TypeOK ==
    /\ prefs \in [PrefKey -> BOOLEAN]
    /\ req \in [mode : Mode \cup {"null"}, started : BOOLEAN, promise : BOOLEAN,
                origin : Mode \cup {"null"}, stale : BOOLEAN,
                msgs : Seq({"create", "start", "destroy"})]
    /\ svc \in {"absent", "up", "down"}
    /\ activity \in {"none", "resumed", "paused", "finishing"}
    /\ screen \in {"main", "settings"} /\ vm \in BOOLEAN
    /\ launched \in Action
    /\ deaths \in Nat

\* Not in the code: origin, the last explicit request the service owes its life
\* to, and stale, that a refused start or the death of the process has touched
\* startMode since a start was last accepted.  promise: startForegroundService() awaits a startForeground().
Init ==
    /\ prefs = [k \in PrefKey |-> k = "foreground"]
    /\ req = [mode |-> "null", started |-> FALSE, promise |-> FALSE, origin |-> "null",
              stale |-> FALSE, msgs |-> <<>>]
    /\ svc = "absent" /\ activity = "none" /\ screen = "main" /\ vm = FALSE
    /\ launched = "MAIN" /\ deaths = 0

-----------------------------------------------------------------------------
(* The service's static methods.                                           *)

IsRunning == svc = "up"

Foreground(m) == m # "ByUser" \/ prefs["foreground"]

\* SshdService.startService(): startMode is set first; ok: Android accepts.
StartService(r, m, ok) ==
    IF ~ok THEN [r EXCEPT !.mode = m, !.stale = TRUE]
    ELSE [mode |-> m, started |-> TRUE, promise |-> r.promise \/ Foreground(m),
          origin |-> r.origin, stale |-> FALSE,
          msgs |-> r.msgs \o (IF r.started THEN <<"start">> ELSE <<"create", "start">>)]

StopService(r) ==
    [mode |-> "null", started |-> FALSE, promise |-> r.promise, origin |-> "null",
     stale |-> FALSE, msgs |-> IF r.started THEN Append(r.msgs, "destroy") ELSE r.msgs]

\* An explicit request: a menu or tile click, an intent, the boot broadcast.
Asked(r, m, ok) == [StartService(r, m, ok) EXCEPT !.origin = IF ok THEN m ELSE @]

\* MainFragment.onResume(): start on opening the app.
OnResume(r, ok) ==
    IF ~IsRunning /\ prefs["onOpen"]
    THEN [StartService(r, "ByUser", ok) EXCEPT !.origin = IF @ = "null" THEN "ByUser" ELSE @]
    ELSE r

FragmentOnDestroy_KeepInverted(r) ==
    IF vm /\ r.mode = "ByUser" /\ prefs["keep"] THEN StopService(r) ELSE r

\* MainFragment.onDestroy()
FragmentOnDestroy(r) ==
    IF vm /\ r.mode = "ByUser" /\ ~prefs["keep"] THEN StopService(r) ELSE r

\* MainActivity.handeIntentAction(): the requests it leaves ...
IntentRequests(r, a, ok) ==
    CASE prefs["intent"] /\ a = "START" /\ ~IsRunning -> Asked(r, "ByIntent", ok)
      [] prefs["intent"] /\ a = "STOP" /\ IsRunning /\ r.mode = "ByIntent" -> StopService(r)
      [] OTHER -> r

\* ... and whether it finishes the activity.
IntentFinishes(r, a, ok) ==
    prefs["intent"] /\ \/ a = "START" /\ ~IsRunning /\ ~ok
                       \/ a = "STOP" /\ (IsRunning => r.mode = "ByIntent")

Room == Len(req.msgs) + 4 <= MaxMsgs

-----------------------------------------------------------------------------
(* The activity.  onCreate() to onResume() are one message of the looper,  *)
(* and so are the two halves of a recreation (rotation).                   *)

\* onCreate(), then onResume() of the fragment on top, unless finished.
Shown(r, a, top, ok) ==
    /\ req' = IF ~IntentFinishes(r, a, ok) /\ top = "main"
              THEN OnResume(IntentRequests(r, a, ok), ok) ELSE IntentRequests(r, a, ok)
    /\ launched' = a

Launch(a) ==
    /\ activity = "none" /\ Room
    /\ \E ok \in BOOLEAN :
          /\ Shown(req, a, "main", ok)
          /\ activity' = IF IntentFinishes(req, a, ok) THEN "none" ELSE "resumed"
          /\ vm' = ~IntentFinishes(req, a, ok)
    /\ screen' = "main"
    /\ UNCHANGED <<prefs, svc, deaths>>

\* singleTask: a further intent goes to onNewIntent(); getIntent() is kept.
NewIntent(a) ==
    /\ activity \in {"resumed", "paused"} /\ Room
    /\ \E ok \in BOOLEAN :
          /\ req' = IF ~IntentFinishes(req, a, ok) /\ screen = "main"
                    THEN OnResume(IntentRequests(req, a, ok), ok) ELSE IntentRequests(req, a, ok)
          /\ activity' = IF IntentFinishes(req, a, ok) THEN "finishing" ELSE "resumed"
    /\ UNCHANGED <<prefs, svc, screen, vm, launched, deaths>>

Pause ==
    /\ activity = "resumed"
    /\ activity' = "paused"
    /\ UNCHANGED <<prefs, req, svc, screen, vm, launched, deaths>>

Resume ==
    /\ activity = "paused" /\ Room
    /\ activity' = "resumed"
    /\ \E ok \in BOOLEAN : req' = IF screen = "main" THEN OnResume(req, ok) ELSE req
    /\ UNCHANGED <<prefs, svc, screen, vm, launched, deaths>>

\* The app is left for good: back, swiped away, finished.
DestroyActivity ==
    /\ activity \in {"paused", "finishing"} /\ Room
    /\ activity' = "none" /\ vm' = FALSE
    /\ req' = FragmentOnDestroy(req)
    /\ UNCHANGED <<prefs, svc, screen, launched, deaths>>

\* Rotation: the activity is destroyed and created again with the intent it was
\* launched with; in the settings, MainFragment comes back without a view.
Rotate ==
    /\ activity = "resumed" /\ Room
    /\ \E ok \in BOOLEAN :
          LET r == FragmentOnDestroy(req) IN
          /\ Shown(r, launched, screen, ok)
          /\ activity' = IF IntentFinishes(r, launched, ok) THEN "none" ELSE "resumed"
          /\ vm' = (screen = "main" /\ ~IntentFinishes(r, launched, ok))
    /\ UNCHANGED <<prefs, svc, screen, deaths>>

OpenSettings ==
    /\ activity = "resumed" /\ screen = "main"
    /\ screen' = "settings"
    /\ UNCHANGED <<prefs, req, svc, activity, vm, launched, deaths>>

\* Back from the settings: MainFragment gets a view and is resumed.
CloseSettings ==
    /\ activity = "resumed" /\ screen = "settings" /\ Room
    /\ screen' = "main" /\ vm' = TRUE
    /\ \E ok \in BOOLEAN : req' = OnResume(req, ok)
    /\ UNCHANGED <<prefs, svc, activity, launched, deaths>>

\* onSharedPreferenceChanged(): start on boot needs the foreground service.
Sanitised(p) == IF p["boot"] THEN [p EXCEPT !["foreground"] = TRUE] ELSE p

\* The foreground switch is disabled while start on boot is on.
Toggle(k) ==
    /\ activity = "resumed" /\ screen = "settings" /\ k \in Togglable
    /\ k = "foreground" => ~prefs["boot"]
    /\ prefs' = Sanitised([prefs EXCEPT ![k] = ~@])
    /\ UNCHANGED <<req, svc, activity, screen, vm, launched, deaths>>

\* The start button of MainFragment, and the tile.
StartButton(r, ok) == IF IsRunning THEN StopService(r) ELSE Asked(r, "ByUser", ok)

Menu ==
    /\ activity = "resumed" /\ screen = "main" /\ Room
    /\ \E ok \in BOOLEAN : req' = StartButton(req, ok)
    /\ UNCHANGED <<prefs, svc, activity, screen, vm, launched, deaths>>

TileClick ==
    /\ Room
    /\ \E ok \in BOOLEAN : req' = StartButton(req, ok)
    /\ UNCHANGED <<prefs, svc, activity, screen, vm, launched, deaths>>

\* BootReceiver.onReceive(): also after a package replacement.
Boot ==
    /\ Room /\ prefs["boot"]
    /\ req' = Asked(req, "OnBoot", TRUE)
    /\ UNCHANGED <<prefs, svc, activity, screen, vm, launched, deaths>>

-----------------------------------------------------------------------------
(* Android: the service callbacks, and the death of the process.           *)

Handle(m) == req.msgs # <<>> /\ Head(req.msgs) = m

ServiceCreate ==
    /\ Handle("create")
    /\ svc' = "down"
    /\ req' = [req EXCEPT !.msgs = Tail(@)]
    /\ UNCHANGED <<prefs, activity, screen, vm, launched, deaths>>

\* onStartCommand(): the daemon is started, then startForeground() if preferred.
ServiceStart ==
    /\ Handle("start")
    /\ svc' \in {"up", "down"}
    /\ req' = [req EXCEPT !.msgs = Tail(@), !.promise = @ /\ ~prefs["foreground"]]
    /\ UNCHANGED <<prefs, activity, screen, vm, launched, deaths>>

ServiceDestroy_KeepsInstance ==
    /\ Handle("destroy")
    /\ svc' = "down"
    /\ req' = [req EXCEPT !.msgs = Tail(@)]
    /\ UNCHANGED <<prefs, activity, screen, vm, launched, deaths>>

ServiceDestroy ==
    /\ Handle("destroy")
    /\ svc' = "absent"
    /\ req' = [req EXCEPT !.msgs = Tail(@)]
    /\ UNCHANGED <<prefs, activity, screen, vm, launched, deaths>>

\* The watchdog gives up on the daemon.
DaemonLost ==
    /\ svc = "up"
    /\ svc' = "down"
    /\ UNCHANGED <<prefs, req, activity, screen, vm, launched, deaths>>

\* The statics are gone; the service is sticky.
ProcessDies ==
    /\ deaths < MaxDeaths
    /\ deaths' = deaths + 1
    /\ svc' = "absent" /\ activity' = "none" /\ vm' = FALSE
    /\ req' = [req EXCEPT !.mode = "null", !.stale = TRUE, !.promise = FALSE,
                          !.msgs = IF req.started THEN <<"create", "start">> ELSE <<>>]
    /\ UNCHANGED <<prefs, screen, launched>>

-----------------------------------------------------------------------------
Callbacks == ServiceCreate \/ ServiceStart \/ ServiceDestroy

Next ==
    \/ \E a \in Action : Launch(a) \/ NewIntent(a)
    \/ Pause \/ Resume \/ DestroyActivity \/ Rotate
    \/ OpenSettings \/ CloseSettings \/ (\E k \in PrefKey : Toggle(k))
    \/ Menu \/ TileClick \/ Boot
    \/ Callbacks \/ DaemonLost \/ ProcessDies

Spec == Init /\ [][Next]_vars

\* The main looper goes on handling messages.
FairSpec == Spec /\ WF_vars(Callbacks)

-----------------------------------------------------------------------------
(* Properties.                                                             *)

External == req.origin \in {"ByIntent", "OnBoot"}

\* "When started ByUser stop it": leaving the app from the main screen stops a
\* service the user started, unless it is to be kept, whatever start-on-open and
\* the other requests did to startMode; a refused start or the death of the
\* process may have lost it.
UserServiceEndsWithUi ==
    [][DestroyActivity /\ screen = "main" /\ req.origin = "ByUser" /\ ~req.stale
          /\ ~prefs["keep"] => ~req'.started]_vars

\* "Always foreground as required by latest Android version": when the commands
\* of a service started by intent or at boot are handled, no promise to call
\* startForeground() is left open.
ForegroundPromiseKept == req.promise /\ External => req.msgs # <<>>

\* Every stop is carried out, whatever else is asked for before it is: a service
\* that is no longer started ends without an object, or is started again.
StopEndsService == ~req.started ~> (svc = "absent" \/ req.started)
=============================================================================
