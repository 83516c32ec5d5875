--------------------------- MODULE LauncherProofs ---------------------------
(***************************************************************************)
(* Theorems about Launcher, for every choice of the preferences a user can *)
(* change and every bound on messages and deaths of the process.           *)
(***************************************************************************)
EXTENDS Launcher, TLAPS

\* The requests made so far: what TypeOK says of req.
Req == [mode : Mode \cup {"null"}, started : BOOLEAN, promise : BOOLEAN,
        origin : Mode \cup {"null"}, stale : BOOLEAN,
        msgs : Seq({"create", "start", "destroy"})]

\* A request record in which startMode knows a service of the user's.  For one that an
\* intent or the boot started nothing of the kind holds: start-on-open relabels it.
Labelled(r) ==
    r \in Req /\ (r.started /\ r.origin = "ByUser" /\ ~r.stale => r.mode = "ByUser")

\* MainFragment on top has had a view, so that its onDestroy() acts.
ViewOnMain == activity # "none" /\ screen = "main" => vm

IInv == TypeOK /\ ViewOnMain /\ Labelled(req)
-----------------------------------------------------------------------------
(* The requests: each operator keeps a labelled record labelled.           *)

\* startService() and stopService() make well-formed requests.
LEMMA RequestTypes ==
  ASSUME TypeOK, NEW r \in Req, NEW m \in Mode, NEW ok \in BOOLEAN
  PROVE  /\ StartService(r, m, ok) \in Req
         /\ (ok => StartService(r, m, ok).mode = m) /\ (~ok => StartService(r, m, ok).stale)
         /\ StopService(r) \in Req /\ ~StopService(r).started
  <1>1. /\ r.mode \in Mode \cup {"null"} /\ r.started \in BOOLEAN /\ r.promise \in BOOLEAN
        /\ r.origin \in Mode \cup {"null"} /\ r.stale \in BOOLEAN
        /\ r.msgs \in Seq({"create", "start", "destroy"})
    BY DEF Req
  <1>2. r.msgs \o (IF r.started THEN <<"start">> ELSE <<"create", "start">>)
          \in Seq({"create", "start", "destroy"})
    <2>1. r.msgs \o <<"start">> \in Seq({"create", "start", "destroy"})
      BY <1>1
    <2>2. <<"create", "start">> \in Seq({"create", "start", "destroy"})
      OBVIOUS
    <2>3. r.msgs \o <<"create", "start">> \in Seq({"create", "start", "destroy"})
      BY <1>1, <2>2
    <2> QED BY <1>1, <2>1, <2>3, Zenon
  <1>3. (IF r.started THEN Append(r.msgs, "destroy") ELSE r.msgs) \in Seq({"create", "start", "destroy"})
    BY <1>1
  <1>4. (r.promise \/ Foreground(m)) \in BOOLEAN
    BY Zenon
  <1>5. [r EXCEPT !.mode = m, !.stale = TRUE] \in Req
    BY <1>1 DEF Req
  <1>6. /\ StartService(r, m, ok) \in Req
         /\ (ok => StartService(r, m, ok).mode = m) /\ (~ok => StartService(r, m, ok).stale)
    BY <1>1, <1>2, <1>4, <1>5 DEF StartService, Req
  <1>7. StopService(r) \in Req /\ ~StopService(r).started
    BY <1>1, <1>3 DEF StopService, Req
  <1> QED BY <1>6, <1>7

\* stopService() leaves a record without a started service.
LEMMA StopLabelled == ASSUME TypeOK, NEW r, Labelled(r) PROVE Labelled(StopService(r))
  BY RequestTypes DEF Labelled, Mode

\* An explicit request that is accepted names itself in startMode.
LEMMA AskedLabelled ==
  ASSUME TypeOK, NEW r, Labelled(r), NEW m \in Mode, NEW ok \in BOOLEAN
  PROVE  Labelled(Asked(r, m, ok))
  <1>1. r \in Req
    BY DEF Labelled
  <1>2. /\ StartService(r, m, ok) \in Req
         /\ (ok => StartService(r, m, ok).mode = m) /\ (~ok => StartService(r, m, ok).stale)
    BY <1>1, RequestTypes
  <1> DEFINE q == StartService(r, m, ok)
  <1>3. Asked(r, m, ok) = [q EXCEPT !.origin = IF ok THEN m ELSE q.origin]
    BY DEF Asked
  <1> HIDE DEF q
  <1>4. q \in Req /\ (ok => q.mode = m) /\ (~ok => q.stale)
    BY <1>2 DEF q
  <1>5. /\ Asked(r, m, ok) \in Req
        /\ ok => Asked(r, m, ok).mode = m /\ Asked(r, m, ok).origin = m
        /\ ~ok => Asked(r, m, ok).stale
    BY <1>1, <1>3, <1>4 DEF Req
  <1> QED BY <1>1, <1>5 DEF Labelled

\* Opening the app makes the service the user's, whoever started it, or the start is
\* refused.
LEMMA OnResumeLabelled ==
  ASSUME TypeOK, NEW r, Labelled(r), NEW ok \in BOOLEAN
  PROVE  Labelled(OnResume(r, ok))
  <1>1. CASE ~IsRunning /\ prefs["onOpen"]
    <2> DEFINE q == StartService(r, "ByUser", ok)
    <2>1. q \in Req /\ (ok => q.mode = "ByUser") /\ (~ok => q.stale)
      BY RequestTypes DEF Labelled, Mode
    <2>2. OnResume(r, ok) = [q EXCEPT !.origin = IF q.origin = "null" THEN "ByUser" ELSE q.origin]
      BY <1>1 DEF OnResume
    <2> HIDE DEF q
    <2>3. /\ OnResume(r, ok) \in Req
          /\ OnResume(r, ok).mode = q.mode /\ OnResume(r, ok).stale = q.stale
      BY <2>1, <2>2 DEF Req, Mode
    <2> QED BY <2>1, <2>3 DEF Labelled
  <1>2. CASE ~(~IsRunning /\ prefs["onOpen"])
    BY <1>2 DEF OnResume
  <1> QED BY <1>1, <1>2

\* Destroying MainFragment stops the service or leaves the requests alone.
LEMMA OnDestroyLabelled == ASSUME TypeOK, NEW r, Labelled(r) PROVE Labelled(FragmentOnDestroy(r))
  BY StopLabelled DEF FragmentOnDestroy

\* START and STOP intents.
LEMMA IntentLabelled ==
  ASSUME TypeOK, NEW r, Labelled(r), NEW a, NEW ok \in BOOLEAN
  PROVE  Labelled(IntentRequests(r, a, ok))
  <1>1. Labelled(Asked(r, "ByIntent", ok)) /\ Labelled(StopService(r))
    BY AskedLabelled, StopLabelled DEF Mode
  <1> QED BY <1>1, Zenon DEF IntentRequests

\* The start button and the tile.
LEMMA ButtonLabelled ==
  ASSUME TypeOK, NEW r, Labelled(r), NEW ok \in BOOLEAN
  PROVE  Labelled(StartButton(r, ok))
  BY AskedLabelled, StopLabelled DEF StartButton, Mode

\* Creating the activity.
LEMMA ShownLabelled ==
  ASSUME TypeOK, NEW r, Labelled(r), NEW a, NEW top, NEW ok \in BOOLEAN, Shown(r, a, top, ok)
  PROVE  Labelled(req')
  <1>1. Labelled(IntentRequests(r, a, ok))
    BY IntentLabelled
  <1>2. Labelled(OnResume(IntentRequests(r, a, ok), ok))
    BY <1>1, OnResumeLabelled
  <1> QED BY <1>1, <1>2 DEF Shown

-----------------------------------------------------------------------------
(* The callbacks.                                                          *)

\* The application as installed.
LEMMA InitIInv == Init => IInv
  <1> SUFFICES ASSUME Init PROVE IInv
    OBVIOUS
  <1> USE DEF Init
  <1>1. prefs \in [PrefKey -> BOOLEAN]
    BY DEF PrefKey
  <1>2. req \in Req /\ req.started = FALSE
    BY DEF Req
  <1>3. TypeOK
    BY <1>1, <1>2 DEF TypeOK, Req, Action
  <1> QED BY <1>2, <1>3 DEF IInv, ViewOnMain, Labelled

\* A step that leaves the preferences alone keeps the invariant when the view and
\* the new requests are right.
LEMMA KeptBy ==
  ASSUME IInv, UNCHANGED prefs, Labelled(req'), ViewOnMain',
         svc' \in {"absent", "up", "down"},
         activity' \in {"none", "resumed", "paused", "finishing"},
         screen' \in {"main", "settings"}, vm' \in BOOLEAN, launched' \in Action, deaths' \in Nat
  PROVE  IInv'
  <1>1. req' \in Req
    BY DEF Labelled
  <1>2. TypeOK'
    BY <1>1, Zenon DEF IInv, TypeOK, Req
  <1>3. Labelled(req)'
    BY DEF Labelled
  <1> QED BY <1>2, <1>3 DEF IInv

\* What a callback does not change keeps its type.
LEMMA Types ==
  ASSUME IInv
  PROVE  /\ TypeOK /\ ViewOnMain /\ Labelled(req)
         /\ svc \in {"absent", "up", "down"}
         /\ activity \in {"none", "resumed", "paused", "finishing"}
         /\ screen \in {"main", "settings"} /\ vm \in BOOLEAN /\ launched \in Action
         /\ deaths \in Nat
  BY Zenon DEF IInv, TypeOK

\* The activity is created, gets an intent, or is created again.
LEMMA StepIntents ==
  ASSUME IInv, \/ \E a \in Action : Launch(a) \/ NewIntent(a)
               \/ Rotate
  PROVE  IInv'
  <1> USE Types
  <1>1. ASSUME NEW a \in Action, Launch(a) PROVE IInv'
    <2>1. PICK ok \in BOOLEAN :
              /\ Shown(req, a, "main", ok)
              /\ activity' = IF IntentFinishes(req, a, ok) THEN "none" ELSE "resumed"
              /\ vm' = ~IntentFinishes(req, a, ok)
      BY <1>1 DEF Launch
    <2>2. Labelled(req') /\ launched' = a
      BY <2>1, ShownLabelled DEF Shown
    <2>3. UNCHANGED <<prefs, svc, deaths>> /\ screen' = "main"
      BY <1>1 DEF Launch
    <2>4. vm' \in BOOLEAN /\ activity' \in {"none", "resumed", "paused", "finishing"} /\ ViewOnMain'
      BY <2>1 DEF ViewOnMain
    <2> QED BY <2>2, <2>3, <2>4, KeptBy
  <1>2. ASSUME NEW a \in Action, NewIntent(a) PROVE IInv'
    <2>1. PICK ok \in BOOLEAN :
              /\ req' = IF ~IntentFinishes(req, a, ok) /\ screen = "main"
                        THEN OnResume(IntentRequests(req, a, ok), ok) ELSE IntentRequests(req, a, ok)
              /\ activity' = IF IntentFinishes(req, a, ok) THEN "finishing" ELSE "resumed"
      BY <1>2 DEF NewIntent
    <2>2. Labelled(IntentRequests(req, a, ok))
      BY IntentLabelled
    <2>3. Labelled(OnResume(IntentRequests(req, a, ok), ok))
      BY <2>2, OnResumeLabelled
    <2>4. UNCHANGED <<prefs, svc, screen, vm, launched, deaths>> /\ activity # "none"
      BY <1>2 DEF NewIntent
    <2>5. Labelled(req') /\ ViewOnMain' /\ activity' \in {"none", "resumed", "paused", "finishing"}
      BY <2>1, <2>2, <2>3, <2>4 DEF ViewOnMain
    <2> QED BY <2>4, <2>5, KeptBy
  <1>3. CASE Rotate
    <2> DEFINE r == FragmentOnDestroy(req)
    <2>1. PICK ok \in BOOLEAN :
              /\ Shown(r, launched, screen, ok)
              /\ activity' = IF IntentFinishes(r, launched, ok) THEN "none" ELSE "resumed"
              /\ vm' = (screen = "main" /\ ~IntentFinishes(r, launched, ok))
      BY <1>3 DEF Rotate
    <2>2. Labelled(r)
      BY OnDestroyLabelled
    <2>3. UNCHANGED <<prefs, svc, screen, deaths>>
      BY <1>3 DEF Rotate
    <2> HIDE DEF r
    <2>4. Labelled(req') /\ launched' = launched
      BY <2>1, <2>2, ShownLabelled DEF Shown
    <2>5. vm' \in BOOLEAN /\ activity' \in {"none", "resumed", "paused", "finishing"} /\ ViewOnMain'
      BY <2>1, <2>3 DEF ViewOnMain
    <2> QED BY <2>3, <2>4, <2>5, KeptBy
  <1> QED BY <1>1, <1>2, <1>3

\* The rest of the activity's life cycle.
LEMMA StepLifeCycle ==
  ASSUME IInv, Pause \/ Resume \/ DestroyActivity \/ OpenSettings \/ CloseSettings
  PROVE  IInv'
  <1> USE Types
  <1>1. CASE Pause \/ OpenSettings
    BY <1>1, KeptBy DEF Pause, OpenSettings, ViewOnMain
  <1>2. CASE Resume
    <2>1. PICK ok \in BOOLEAN : req' = IF screen = "main" THEN OnResume(req, ok) ELSE req
      BY <1>2 DEF Resume
    <2>2. Labelled(req')
      BY <2>1, OnResumeLabelled
    <2> QED BY <1>2, <2>2, KeptBy DEF Resume, ViewOnMain
  <1>3. CASE DestroyActivity
    BY <1>3, KeptBy, OnDestroyLabelled DEF DestroyActivity, ViewOnMain
  <1>4. CASE CloseSettings
    <2>1. PICK ok \in BOOLEAN : req' = OnResume(req, ok)
      BY <1>4 DEF CloseSettings
    <2>2. Labelled(req')
      BY <2>1, OnResumeLabelled
    <2> QED BY <1>4, <2>2, KeptBy DEF CloseSettings, ViewOnMain
  <1> QED BY <1>1, <1>2, <1>3, <1>4

\* A preference is changed.
LEMMA StepToggle ==
  ASSUME IInv, NEW k \in PrefKey, Toggle(k)
  PROVE  IInv'
  <1> USE DEF IInv
  <1>1. prefs \in [PrefKey -> BOOLEAN] /\ "foreground" \in PrefKey
    BY DEF TypeOK, PrefKey
  <1>2. [prefs EXCEPT ![k] = ~prefs[k]] \in [PrefKey -> BOOLEAN]
    BY <1>1
  <1>3. prefs' \in [PrefKey -> BOOLEAN]
    BY <1>1, <1>2 DEF Toggle, Sanitised
  <1>4. TypeOK' /\ Labelled(req)' /\ ViewOnMain'
    BY <1>3 DEF TypeOK, Labelled, ViewOnMain, Toggle
  <1> QED BY <1>4

\* The other ways to start and stop.
LEMMA StepButtons ==
  ASSUME IInv, Menu \/ TileClick \/ Boot
  PROVE  IInv'
  <1> USE Types
  <1>1. UNCHANGED <<prefs, svc, activity, screen, vm, launched, deaths>>
    BY DEF Menu, TileClick, Boot
  <1>2. CASE Menu \/ TileClick
    <2>1. PICK ok \in BOOLEAN : req' = StartButton(req, ok)
      BY <1>2 DEF Menu, TileClick
    <2>2. Labelled(req')
      BY <2>1, ButtonLabelled
    <2> QED BY <1>1, <2>2, KeptBy DEF ViewOnMain
  <1>3. CASE Boot
    <2>1. Labelled(req')
      BY <1>3, AskedLabelled DEF Boot, Mode
    <2> QED BY <1>1, <2>1, KeptBy DEF ViewOnMain
  <1> QED BY <1>2, <1>3

\* The callbacks of the service, the end of the daemon and of the process.
LEMMA StepAndroid ==
  ASSUME IInv, Callbacks \/ DaemonLost \/ ProcessDies
  PROVE  IInv'
  <1> USE Types
  <1>1. req \in Req
    BY DEF Labelled
  <1>2. CASE Callbacks
    <2>1. /\ UNCHANGED <<prefs, activity, screen, vm, launched, deaths>>
          /\ svc' \in {"absent", "up", "down"} /\ req.msgs # <<>>
          /\ \/ req' = [req EXCEPT !.msgs = Tail(req.msgs)]
             \/ req' = [req EXCEPT !.msgs = Tail(req.msgs), !.promise = req.promise /\ ~prefs["foreground"]]
      BY <1>2 DEF Callbacks, ServiceCreate, ServiceStart, ServiceDestroy, Handle
    <2>2. Tail(req.msgs) \in Seq({"create", "start", "destroy"})
      BY <1>1, <2>1 DEF Req
    <2>3. (req.promise /\ ~prefs["foreground"]) \in BOOLEAN
      BY Zenon
    <2>4. /\ req' \in Req /\ req'.started = req.started
          /\ req'.mode = req.mode /\ req'.origin = req.origin /\ req'.stale = req.stale
      BY <1>1, <2>1, <2>2, <2>3 DEF Req
    <2>5. Labelled(req')
      BY <2>4 DEF Labelled
    <2> QED BY <2>1, <2>5, KeptBy DEF ViewOnMain
  <1>3. CASE DaemonLost
    BY <1>3, KeptBy DEF DaemonLost, ViewOnMain
  <1>4. CASE ProcessDies
    <2>1. (IF req.started THEN <<"create", "start">> ELSE <<>>) \in Seq({"create", "start", "destroy"})
      <3>1. <<"create", "start">> \in Seq({"create", "start", "destroy"})
        OBVIOUS
      <3>2. <<>> \in Seq({"create", "start", "destroy"})
        OBVIOUS
      <3> QED BY <3>1, <3>2, Zenon
    <2>2. req' \in Req /\ req'.stale
      BY <1>1, <1>4, <2>1 DEF ProcessDies, Req
    <2>3. Labelled(req')
      BY <2>2 DEF Labelled
    <2>4. /\ UNCHANGED <<prefs, screen, launched>>
          /\ svc' = "absent" /\ activity' = "none" /\ vm' = FALSE /\ deaths' = deaths + 1
      BY <1>4 DEF ProcessDies
    <2>5. vm' \in BOOLEAN /\ ViewOnMain'
      BY <2>4 DEF ViewOnMain
    <2>6. deaths' \in Nat
      BY <2>4
    <2> QED BY <2>3, <2>4, <2>5, <2>6, KeptBy
  <1> QED BY <1>2, <1>3, <1>4

\* Every step, and every stuttering step, keeps the invariant.
LEMMA NextIInv == IInv /\ [Next]_vars => IInv'
  <1> SUFFICES ASSUME IInv, [Next]_vars PROVE IInv'
    OBVIOUS
  <1>1. CASE UNCHANGED vars
    BY <1>1 DEF vars, IInv, TypeOK, ViewOnMain, Labelled
  <1> QED BY <1>1, StepIntents, StepLifeCycle, StepToggle, StepButtons, StepAndroid DEF Next

\* The inductive invariant holds throughout.
LEMMA Invariant == Spec => []IInv
  BY InitIInv, NextIInv, PTL DEF Spec

-----------------------------------------------------------------------------
(* The theorems.                                                           *)

\* The state of the application keeps its type.
THEOREM TypeCorrect == Spec => []TypeOK
  BY Invariant, PTL DEF IInv

\* MainFragment.onDestroy(): leaving the app from its main screen stops a service the
\* user started, unless it is to be kept: start-on-open, intents, the tile and rotation
\* may all have touched startMode since; only a refused start and the death of the process
\* lose it.
THEOREM UserServiceStopped == Spec => UserServiceEndsWithUi
  <1>1. IInv /\ [Next]_vars
          => [DestroyActivity /\ screen = "main" /\ req.origin = "ByUser" /\ ~req.stale
               /\ ~prefs["keep"] => ~req'.started]_vars
    <2> SUFFICES ASSUME IInv, DestroyActivity, screen = "main", req.origin = "ByUser", ~req.stale,
                        ~prefs["keep"]
                 PROVE  ~req'.started
      OBVIOUS
    <2>1. Labelled(req) /\ TypeOK /\ vm
      BY Types DEF ViewOnMain, DestroyActivity
    <2>2. CASE req.started
      <3>1. req' = StopService(req)
        BY <2>1, <2>2 DEF Labelled, DestroyActivity, FragmentOnDestroy
      <3> QED BY <3>1 DEF StopService
    <2>3. CASE ~req.started
      BY <2>3, Zenon DEF DestroyActivity, FragmentOnDestroy, StopService
    <2> QED BY <2>2, <2>3
  <1> QED BY <1>1, Invariant, PTL DEF Spec, UserServiceEndsWithUi
=============================================================================
