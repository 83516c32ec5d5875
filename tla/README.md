# iKofi: models, checks and proofs

iKofi is an SSH server for Android: a Java application that supervises a
Dropbear daemon, a JNI bridge between the two, and a modified Dropbear. This
directory holds TLA+ models of the parts that carry its protocol, the TLC runs
that check them on small instances, and proofs, checked by TLAPS, of what holds
for every instance. Paths below are relative to `src/app/src/main/`; *java/* is
`java/com/ikofi/sshd/`, *dropbear/* is `cpp/dropbear/src/`.

## 1. The system

| Part | State it keeps | Operations | Hard behaviour |
|---|---|---|---|
| `SshdService` (*java/*SshdService.java) | `sInstance`, `startMode` (static); `sshdPid`, `sshdStartTime`, `sshdDuration` per object; tasks of a static one-thread executor | `startService`, `stopService`, `onCreate`, `onStartCommand`, `onDestroy`, `startSshd`, `stopSshd`, the watchdog | two threads run `startSshd()`; decisions under a lock used after it; sticky restart after a death of the process |
| JNI bridge (cpp/jni-dropbear.c) | flags copied at fork | `start_sshd` (fork), `kill`, `waitpid`; hooks that choose the authentication methods and read `master_password` | a failing fork; a second wait for one child |
| Daemon start-up and connection loop (*dropbear/*svr-main.c) | the port, `dropbear.pid`, `childpipes`, `preauth_addrs`, `exitflag` | bind, write pid file, select, accept, fork, register, close | sessions, clients and signals go on between any two steps; limits kept in a table that lags behind |
| Authentication of a session (*dropbear/*svr-auth.c, svr-authpasswd.c, svr-authpubkey.c) | `authtypes`, `failcount`, `serv_pubkey_query_count`, `username` | one request at a time, answered by success, partial success, failure or exit | the client chooses the order; files change during the session |
| Starting and stopping (*java/*MainActivity, MainFragment, SshdTileService, BootReceiver, ServiceViewModel) | `startMode`, start-up preferences, activity and fragment state | launch, new intent, pause, resume, rotate, destroy, menu, tile, boot | requests are messages: callbacks see the service as it was |
| Credentials (*java/*SshdSettings, settings/UserPassStorage, SettingsFragment, SettingsViewModel) | `master_password`, the fields being edited | edit, save on back, check, warn, delayed close | a save cut short; two parsers for one file |
| Log monitor and key import (*java/*ServiceViewModel) | `cancelRequested`, `forceLogUpdate`, a static one-thread executor, `authorized_keys` | poll, cancel, import, delete | one flag for two poll loops; the file changes between its date and its lines |
| Key exchange and packets (*dropbear/*common-kex.c, packet.c, process-packet.c, svr-kex.c, cli-kex.c) | `kexstate`, `keys`, `newkeys`, `requirenext`, `ignorenext`, sequence numbers, the reply queue | KEXINIT, KEXDH_INIT, KEXDH_REPLY, NEWKEYS, rekeying | exchanges that cross; a wrong guess; what the upper layers send meanwhile |
| Channels (*dropbear/*common-channel.c, circbuffer.c, svr-chansession.c, cli-chansession.c) | descriptors, windows, two circular buffers, EOF and CLOSE flags, the exit of the command | open, exec, data, window adjust, EOF, CLOSE, exit status | partial writes, full queues, any order of exit, EOF and CLOSE |
| Preferences, notification, executable mapping | text | parsing and formatting | none |
| Ciphers and the rest of Dropbear, libtomcrypt, libtommath, OpenSSH's sftp-server, rsync | | | upstream code, used as it is |

How they interact: the user interface, the intents, the tile and the boot
receiver call the static methods of `SshdService`, which leave messages for the
main looper. The service forks the daemon through the bridge and waits for it on
its executor. Daemon and service share only signals, the exit of the process and
`dropbear.pid`. The daemon forks one session per connection and learns from a
pipe that it is authenticated or gone. A session reads `master_password` and
`authorized_keys`, which the settings screen writes from another process.

What makes each part correct: every daemon forked is watched and reaped, at most
one serves, a started service serves again after failures and deaths, a stopped
one leaves nothing behind (service); leaving the app stops what the user started
and nothing else (starting and stopping); the limits on unauthenticated clients
hold of the sessions, and slots come back (connection loop); a session is
authenticated only by the methods allowed, all of them with `-t`, within its
tries (authentication); a session reads the credentials that were saved, or none
(credentials); the screen shows the log as it is, in the end (log monitor); no key
exchange between two Dropbears fails or reorders what is sent (key exchange); the
client gets all that a command printed, and the channel ends with the command
(channels). `PROJECT.json` lists the hazards, each at its line.

## 2. Modules

| Module | Models |
|---|---|
| `SshdService` | The service, the executor, Android's service manager, the JNI calls and the start-up of daemons. |
| `Launcher` | Activity, fragments, intents, tile, boot receiver, start-up preferences; the service through what `isRunning()` tells. |
| `SvrMain` | `main_noinetd()`: the connection loop, its table of unauthenticated sessions, signals, failing `accept`, `pipe` and `fork`. |
| `PreauthPool` | Abstract specification: what `default_options.h` promises about unauthenticated clients. `SvrMain` implements it. |
| `SvrAuth` | The authentication of one session. |
| `Credentials` | The settings screen, `master_password` and the session that reads it; `authorized_keys`. |
| `LogMonitor` | The poll loop of `ServiceViewModel`, its executor, and the callbacks that start and cancel it. |
| `Kex` | Key exchange, rekeying and the packet layer at both ends of a connection. |
| `Transport` | Abstract specification: what the packet layer promises to the layers above. `Kex` implements it. |
| `Channel` | A session channel with a command, at both ends. |
| `CircBuffer` | `circbuffer.c` as operators, used by `Channel`. |
| `SshdServiceProofs`, `LauncherProofs`, `SvrMainProofs`, `SvrAuthProofs`, `CredentialsProofs`, `KexProofs`, `ChannelProofs` | Theorems about the module each is named after. |
| `MCSshdService`, `MCKex` | Instances for TLC (model values, the table of algorithms). |

### SshdService

`pc[t]` says where thread `t` (`"main"`, `"exec"`) is inside `startSshd()`, and
`self[t]`, `got[t]` are its `this` and its local `pid`. A section guarded by
`lock` is one step; `fork()`, the assignment of `sshdPid`, `execute()`,
`waitpid()` and the decision are steps of their own, and anything happens in
between. `OnCreate` reads and kills under the lock in one step, as the code
does. `proc` is the life of a process (`forked`, `bound`, `pidopen`, `serving`,
`nofile`, `zombie`, `free`; `nofile` is a daemon that serves although `fopen()`
failed for its pid file); `killed` holds pending SIGKILLs; `ours` the children that the
present application process has not reaped. `looper` is the queue of lifecycle
messages. `AppDies` loses all of the process, leaves its daemons to init and
makes Android deliver `create`, `start` again if the service was started
(START_STICKY). `clock` is `nanoTime()`; `Epoch + clock \div NanosPerMilli` is
`currentTimeMillis()`.

`Overlap` says whether commands, failures and deaths may arrive while the
service is still busy with the previous one. The run `SshdService_overlap` and all
theorems allow it. `SshdService_calm` does not: see section 5.

External, modelled from their use: the service manager, the looper, process
exit and reaping, signal delivery, the clocks. A pid is handed out again only
when nothing remembers it.

### Launcher

`req` gathers what the requests leave behind: `startMode` (`mode`), whether
Android considers the service started, an open promise of
`startForegroundService()`, the queued messages, and two history variables.
`origin` is the explicit request the service owes its life to (start-on-open counts
only when there was none); `stale` says that a refused start or a death of the
process has touched `startMode` since the last start that was accepted. Callbacks
are one step each, as they run to their end on the main thread; a rotation is destroy
and create in one message, with the intent the activity was launched with. Starts
may be refused and the process may die at any time, under all preferences.

### SvrMain and PreauthPool

Steps of the loop are separated where sessions, clients or signals can get in
between: before `select()`, after it, per accepted connection, and between
`fork()` and the parent's bookkeeping. `sess` is the life of a connection; the
read end of its pipe is readable exactly when it is no longer `preauth`.
`pipeFds` counts descriptors, so that a failing `fork()` shows. A signal is
remembered in `eintr` only if it meets the loop inside `select()`.

The refinement mapping is `who[s] = addr[s]` while `sess[s] = "preauth"`: the
promise is about sessions, and the table `childpipes` is not part of it.

### SvrAuth

One action per kind of request. `enabled` is what the preferences and files
allow at the moment and changes freely; `authtypes` is its copy made when the
session begins. `initial`, `passed`, `queries`, `failures` are history: `failures`
are failed tries, `queries` the questions about a key that is not known. Whether
a password or a signature is right is an input; the comparison of credentials
is not part of the model and deserves a review of its own. In this build
`checkusername()` accepts every name up to MAX_USERNAME_LEN; a longer one is not
recorded. `none` never succeeds: the expected password is never empty.

### Credentials

A line is the sequence of its fields, so that the two parsers are modelled by
what they do: `String.split` keeps empty fields in front, `strtok_r` skips all.
`FileWriter` truncates when it is opened and the text arrives when it is closed;
between the two the process may die, the write may fail, and a session may read.
Every IOException of a save, from reading the old file, creating or opening the new
one or writing it, enters the handler of `SettingsFragment`, which goes on to the
check and closes the screen two seconds later (`pops.this`). The callback may come
when the fragment is gone (`pops.old`) or under the warning, whose button then finds
no fragment manager (`stranded`): both throw (`PopThrows`). `saved` is what the user
was told is saved, and Null after a failed write. `keys` holds `authorized_keys` and its temporary file,
each absent, whole or torn.

### LogMonitor

A view model belongs to one activity and outlives its rotations; the executor
belongs to the process and runs one task after the other, so `queue` holds view
models and its head is the one that polls. `task` holds the locals of the loop;
testing the flag, taking the date, reading the lines and sleeping are steps of
their own. Whether the service runs (`up`) and which preferences hold are free
inputs, so that every branch of `onResume()` and `handeIntentAction()` happens.

### Kex and Transport

An end is a record, `ses[e]`, and each C function is an operator from such a
record to the next, so that one iteration of `session_loop()` (a packet, a rekey
or something to send; then the reply queue; then the loop handler) is one step.
The packets are read in the order they were written, as TCP provides. A packet
carries the key and the number it was encrypted with, and `decrypt_packet()`
fails on any other; a key is named by what goes into the exchange hash, so that
keys agree exactly when both ends hashed the same exchange. A name-list is the set
of its names with their places: `localnames[]` keeps the gaps of unusable entries,
the list on the wire does not. The kex methods and
ciphers are the same at both ends; the signature algorithms are not, as a server
has some host keys only, so the guess of the client is right or wrong depending
on `Init`. Strict kex is on or off at both ends. The refinement mapping is the
identity on `sent` and `got`.

### Channel and CircBuffer

The wire is a queue of packets, of which the first `SockBuf` are in TCP's hands
and the rest in `writequeue`. Data is counted in blocks, numbered in each stream,
and `snk[f].got` is what came out at the far end. A write takes any number of
blocks, a read brings any number of those there, and the command may close its
descriptors, exit, and leave a process behind that holds the pipes. The loop of a
session handles one event at a time. The client is Dropbear's, without a pty, for
one command: when its channel is gone it closes the connection.

## 3. Runs

| Run | Checks | Bounds |
|---|---|---|
| `SshdService_overlap` | `TypeOK`, `EveryChildWatched`, `WaitpidHasChild`, `TrackedIsWatched`, `PidFileNamesServer` | three pids, two service objects; two failures, a failing `fork()` or `fopen()`, a death, at any moment |
| `SshdService_calm` | `OneDaemon`, `DeadDaemonNoticed`, `StickyServiceReturns`, `StartedServiceServes`, `StoppedServiceIsGone` | three objects, three commands, a failure and a death, each met at rest |
| `SshdService_crashloop` | `CrashLoopStops`, violated | a clock of a few ticks around the threshold |
| `SshdService_pidfile` | `StickyServiceReturns` with overlap, violated | |
| `Launcher_all` | `UserServiceEndsWithUi`, `StopEndsService` | all preferences, refused starts, one death, six waiting messages |
| `Launcher_promise` | `ForegroundPromiseKept`, violated | |
| `SvrMain_limits` | `SlotOwned`, `DescriptorsAccounted`, `LimitsKept` (refinement), `SlotReclaimed`, `ConnectionDecided`, `SigtermNoticed` | three sessions and addresses, two slots, one per address, one failing accept and one failing fork, descriptors for less than all of it |
| `SvrAuth_methods` | `AuthenticatedProperly`, `FailuresBounded`, `OfferIsTrue` | two names and one too long, two tries, three queries, six requests, with and without `-t` |
| `Credentials_deaths` | `NativeReadsSaved`, `KeysNeverTorn`, `SilentExitIsUsable` | names of one or two fields (so with a colon) over two texts and the empty one, two passwords, four saves or imports, two deaths or failed writes |
| `Kex_rekeying` | `NoProtocolExit`, `QuietDuringKex`, `SessionIdAgrees`, `NonceNeverReused`, `RekeyCompletes`, `ImplementsTransport` (refinement) | two signature algorithms, any host keys, strict kex or not, a rekey started by each end, two packets of data |
| `Channel_session` | `NoneDies`, `WindowsAgree`, `OutputComplete`, `EofAfterInput`, `SessionEnds` | windows of two blocks, packets of two, three blocks of stdout, one of stderr, one of stdin |
| `LogMonitor_screen` | `LogCatchesUp`, `CancelledEnds` | two activities, two changes of the log, three waiting tasks |

The bounds are chosen so that each interesting case happens: a third pid is
needed for a restart on each thread at once, a second object for a restart of
the service, a third address makes both limits on clients bind separately, and a
sixth request is one more than a session with two tries survives. One rekey of
each end is enough for two that cross, and with the first exchange there are up
to three, so the session id, the host key kept and the numbers are carried across
twice. Output longer than the window makes the buffers wrap and the window grow.
Windows of four blocks and five of stdout, which reach a window adjust that is
held back to a third of the window, give 1.6 million states and pass too, as do
the safety properties of `SvrMain` with two listening sockets.

`TypeOK` is stated in `SshdService`, `Launcher`, `SvrMain`, `SvrAuth`,
`Credentials` and `Kex`. The runs check the first; the others hold on the
instances above when they are added to INVARIANTS.

### What the violated runs show

- **The watchdog does not detect crash loops.** `sshdDuration` and
  `sshdStartTime` are nanoseconds, the threshold and the other clock are
  milliseconds; the test for giving up is met by no realistic value.
- **An empty pid file is fatal.** A daemon killed between `fopen()` and
  `fclose()` leaves `dropbear.pid` empty; `parseInt(null)` throws in
  `onCreate()`, Android restarts the sticky service, and it throws again.
- **A foreground promise stays open.** Started by intent with the foreground
  preference off, the service is started by `startForegroundService()` and never
  calls `startForeground()`.

### Known limits that the passing runs exclude

Each of these is a behaviour of the code that shows when the named bound is
lifted; the runs above leave it out on purpose.

- A destroyed service can fork a daemon: the executor decides to restart under the
  lock and calls `startSshd()` after it is released (SshdService.java:371-387), and
  `onDestroy()` fits in between. It finds no pid to kill; the daemon forked next
  serves on, unknown to `isRunning()`, and nothing stops it until the next service
  reads its pid file. The javadoc (SshdService.java:58-63) has "stopped by request"
  lead to "no restart". With `Overlap` and `FairSpec`, `StoppedServiceIsGone` fails
  this way on two pids, and `OneDaemon` fails when a second start comes in between.
- With `Overlap`, `DeadDaemonNoticed` fails: two runs of `startSshd()` at once
  leave a serving daemon nobody tracks, the only executor thread waits for it,
  and the watchdog of the tracked, dead daemon never runs.
- A daemon whose pid file could not be opened outlives the application: no later
  service finds it, and each new daemon loses the port to it. `fopen()` fails in
  `SshdService_overlap`, which asks for no liveness, and not in `SshdService_calm`.
- "NEVER STOP the service if started ByIntent, OnBoot" (MainFragment.java:401-404)
  does not hold, and no run states it: opening the app with "start on opening the
  app", while a service started by intent is not up yet or its daemon is down,
  relabels it `ByUser` (MainFragment.java:272, SshdService.java:188), and leaving the
  app stops it. A refused start does the same, as `startMode` is set first.
- With a rotation and "start on opening the app" the service may end up stopped:
  MainFragment.java:258-267 describes the race and leaves it.
- After a death of the process `startMode` is null, and leaving the app stops
  nothing, until a start is accepted again; `UserServiceEndsWithUi` excludes this
  (`stale`). It is stated for an app left from its main screen: MainFragment has no
  `vm` when it was recreated under the settings, and its `onDestroy()` stops
  nothing then.
- A monitor of the log that was started by an intent under the settings screen is
  cancelled by nothing when the activity is removed from there. It holds the only
  thread of the executor, and the log of a later activity never changes. The
  properties of `LogMonitor` name this case `Abandoned`. A service that comes up
  while the main screen is shown (tile, boot, sticky restart) is not monitored
  before the next `onResume()`.
- When the client's CLOSE arrives while input is still buffered for the command,
  and the command then exits, `check_close()` tests whether to remove the channel
  before it sends its own CLOSE (common-channel.c:309, 333): the channel stays in
  the table until the connection ends. Dropbear's client ends it at once.
- When the client cannot write stdout or stderr any more, data for it is dropped
  and its window is not given back (common-channel.c:803-808); so is data before a
  command is asked for.
- An end stops reading its socket while more than 2*TRANS_MAX_PAYLOAD_LEN waits to
  be sent (common-session.c:172, 204). The window is raised to 512 KiB here
  (localoptions.h:65), far above that limit, so two ends that both send that much
  can stop reading at the same time; `SessionEnds` is checked with a command whose
  input fits into one packet.
- A user name with a colon is accepted and saved. The session reads its first text as
  the name and its next one as the hash, so nobody can log in with it, and
  `NativeReadsSaved` says so. The next save that keeps the password fails, although
  SshdSettings.java:243 says of this case that it "should not be happening unless for
  example the user manually fiddled with the file/permissions". `SilentExitIsUsable`
  holds: three fields are no authentication method to the Java check either.
- The tries of a session: it ends on failure `maxauthtries + 1`
  (`failcount > maxauthtries`, svr-auth.c:448), so that a client has one attempt more
  than the manual page's "number of authentication attempts allowed". And
  `free_query_limit` is always 0 (svr-authpubkey.c:176: the expression meant for it is
  a statement of its own), so that every query for an unknown key but the first is
  counted as a failed try and a client meets its limit before MAX_PUBKEY_QUERIES,
  against svr-authpubkey.c:171-174 and default_options.h:312-326. `FailuresBounded`
  states the two limits as upper bounds, which hold; that the queries within the limit
  are free does not, and is not claimed.
- The project's README says that fixed passwords are kept in
  `EncryptedSharedPreferences`; they are kept in `master_password`.

## 4. Properties worth a word

- `TrackedIsWatched` is stronger than `EveryChildWatched` for the pid a service
  object calls its own: the watchdog must be of the same object, otherwise its
  decision would be taken on other fields.
- `LimitsKept` is about sessions. It needs `SlotOwned`: a session that has not
  authenticated always has a slot, or is the one being registered, so counting
  slots over-approximates counting sessions.
- `SigtermNoticed` asks for something to wake `select()`: a signal that arrives
  between the test of `exitflag` and `select()` wakes nothing by itself.
- `DescriptorsAccounted` includes the two descriptors every failing `fork()`
  leaves open for ever; `ConnectionDecided` holds all the same, as connections
  are then refused.
- `FailuresBounded` keeps failed tries and queries apart, as the options document them,
  although the code counts both in `failcount`.
- `UserServiceEndsWithUi` must hold although start-on-open, a second start, a rotation
  or an intent wrote `startMode` and set or lost `vm` since the user's start.
- `SilentExitIsUsable` relates the Java check to the native parser.
- `NoProtocolExit` and `NoneDies` say that the code's own exits and assertions are
  never met between two ends that run it. Both ends being this code is an
  assumption: what they do with a foreign peer is not modelled.
- `WindowsAgree` counts the window where it is: with the sender, in data under way,
  in adjustments under way. It has to be bounded by the receiver's `recvwindow`,
  and that by the room in both of its buffers, although blocks of one stream take
  room in one buffer only.
- `OutputComplete` is stated when the client drops its channel, since that is the
  moment after which nothing can arrive any more.
- `LogCatchesUp` would fail if the loop remembered the date it finds after reading.

## 5. Fairness

- `SshdService`: weak fairness of the main thread, of the executor thread, of
  the start-up of each daemon and of the delivery of each SIGKILL: Android's
  scheduler and the kernel provide these. Commands, failures, deaths and the
  clock are not assumed to happen. Two runs of `startSshd()` at once can leave
  the executor waiting for ever (above), so liveness is checked for events that
  find the service at rest; their number is bounded.
- `Launcher`: the looper goes on handling messages.
- `SvrMain`: the loop is scheduled, and a session that is not authenticated
  authenticates or ends: AUTH_TIMEOUT in `common-session.c`. Accept and fork
  failures are bounded, so they do not go on for ever. The first is written as
  "infinitely often the loop cannot move, or infinitely often it has moved", which
  is weak fairness of the loop, in a form that TLC checks faster.
- `Kex`: both processes go on reading their socket.
- `Channel`: a session loop that has something to do does something (`LoopReady`,
  the same form). Stdout and stderr of the client take what they are given;
  whether the command reads its input, prints or exits is not assumed.
- `LogMonitor`: the executor's thread and the main looper go on.

`CHECK_DEADLOCK FALSE` is set where the bounded environment may run out of
events: a stopped service, an ended session and a closed settings screen are
legitimate ends.

## 6. Proofs

TLAPS checks the theorems below for all values of the constants, from the
assumptions named in the modules (limits are natural numbers, `None` or `Null` is
none of the values it stands beside, the table of algorithms has no repeats); TLC
evaluates these on every run. None of the properties is inductive by itself. Each
proof names an inductive invariant that TLC agreed with on the run's instance
first, has a lemma for the initial state and one per action, and ends with a few
temporal lines. No theorem has a hypothesis on a constant beyond these assumptions.

| Module | Theorem | States |
|---|---|---|
| `SshdServiceProofs` | `TypeCorrect` | `Spec => []TypeOK` |
| | `ChildrenWatched` | `Spec => []EveryChildWatched` |
| | `WaitpidSound` | `Spec => []WaitpidHasChild` |
| | `TrackedWatched` | `Spec => []TrackedIsWatched` |
| | `PidFileTruthful` | `Spec => []PidFileNamesServer` |
| `SvrAuthProofs` | `TypeCorrect` | `Spec => []TypeOK` |
| | `ProperAuthentication` | `Spec => []AuthenticatedProperly` |
| | `TriesBounded` | `Spec => []FailuresBounded` |
| | `OffersTrue` | `Spec => []OfferIsTrue` |
| `SvrMainProofs` | `TypeCorrect` | `Spec => []TypeOK` |
| | `SlotsOwned` | `Spec => []SlotOwned` |
| | `DescriptorsCounted` | `Spec => []DescriptorsAccounted` |
| | `ImplementsPreauthPool` | `Spec => LimitsKept`, the refinement |
| `LauncherProofs` | `TypeCorrect` | `Spec => []TypeOK` |
| | `UserServiceStopped` | `Spec => UserServiceEndsWithUi` |
| `CredentialsProofs` | `TypeCorrect` | `Spec => []TypeOK` |
| | `KeysWhole` | `Spec => []KeysNeverTorn` |
| | `SilentExit` | `Spec => SilentExitIsUsable` |
| | `SavedIsRead` | `Spec => []NativeReadsSaved` |
| `KexProofs` | `QuietInExchange` | `Spec => []QuietDuringKex` |
| | `NoncesFresh` | `Spec => NonceNeverReused` |
| | `ImplementsTransportSafely` | `Spec => Abstract!Init /\ [][Abstract!Next]_<<sent, got>>` |
| | `NeverExits` | `Spec => []NoProtocolExit` |
| | `SessionIdsAgree` | `Spec => []SessionIdAgrees` |
| `ChannelProofs` | `ProtocolKept` | `Spec => []Protocol`, the inductive invariant |
| | `NobodyDies` | `Spec => []NoneDies` |
| | `WindowsKept` | `Spec => []WindowsAgree` |
| | `OutputDelivered` | `Spec => []OutputComplete` |
| | `InputBeforeEof` | `Spec => []EofAfterInput` |

### SshdService

The first four follow from `IInv`:

- `ThreadsOK` ties the local variables of each thread to its place, and says
  that a main thread inside `startSshd()` works for the current object;
- `LooperOK` says that `create` comes exactly when there is no object, so that
  `onStartCommand()` and `onDestroy()` never meet a missing one (this is what
  makes `sshdPid[sInstance]` well typed);
- `WatchersOurs` and `WatchersDistinct` say that present and future watchdogs
  are for different, unreaped children: reaping one child must not take the
  child of another watchdog;
- `OursOccupied` says that an unreaped child keeps its pid, so that `fork()`
  cannot return it.

`AppDies` and `OnCreateThrows` share the lemma on the death of the process.
`PidFileTruthful` needs `OnePortHolder`: the port is bound before the pid file is
opened, so only one process at a time can be on the way to write it.

### SvrAuth

`Remaining` relates `authtypes` to what the session began with and has passed, in
both modes; `Counted` relates `failcount`, which the code keeps, to the failures
and queries there were: their sum, less one for the first query.
`AuthenticatedProperly` follows from the first at the step
that authenticates, `FailuresBounded` from the second.

### SvrMain and PreauthPool

`SlotsDistinct`, `ForkedOK` and `BacklogsOK` say that a session is in one place: in
one backlog, or being registered, or in one slot. With `SlotOwned`, the sessions
that are not authenticated map one to one into the slots, and cardinality facts
about finite sets turn the two counts that `main_noinetd()` makes over its table
into the two limits of `PreauthPool` on sessions. Every step of the loop is a step
of the pool or a stutter.

### Launcher

`IInv` adds to the type `ViewOnMain` (a `MainFragment` on top has had a view, so
`onDestroy()` has a `vm` to ask) and `Labelled(req)`: `startMode` is `ByUser` whenever
the user started the service, unless it is `stale`. The requests are operators on a
record: a lemma for each says that it keeps a labelled record labelled, and the
actions cite these.

### Credentials

`FileIsSaved` says what the file holds at each place of the screen: the line of what
was saved, nothing, or, while a save has truncated it, nothing with the line still to
be written. The rest is about the two parsers. A saved line is a user name of any
number of fields and a hash; `strtok_r` passes over the empty ones, and lemmas on the
next token of a line give what it finds in terms of the name that was saved.
`SilentExit` needs only that the native parser finds some name and some hash where
`String.split` found two fields that are not empty.

### Kex and Transport

What an end writes depends on its own state, so one lemma per C function
(`EncryptKex`, `SendKexinit`, `SendNewkeys`, `RecvKexinit`, `RecvKexdhInit`,
`ProcessPacket`, `FlushQueue`, `LoopHandler`, ...) takes a record and what is
behind it on the wire to the next record, and `IteratedEnds` and `Composed` put
them together to an iteration of `session_loop()` and to the invariant of both
ends, `KInv`:

- `Phases`: which of `sentkexinit`, `recvkexinit`, `sentnewkeys`, `dataallowed`,
  `requirenext` and `ignorenext` go together. `recvnewkeys` never survives a step:
  an end has always sent its NEWKEYS when it takes the other's;
- `ClientState`: `kex_state` of the client, between two iterations;
- `FreshKeys` and `NewToServer`: the key in use is of an earlier exchange than the
  one going on, since the client's cookies grow and the server has not seen those
  on the wire. This is what makes a new key really new, and so the numbers that
  strict kex sets back to 0 harmless;
- `Written`: what an end has on the wire is quiet between KEXINIT and NEWKEYS,
  numbered without repeats under each key, and of growing cookies;
- `DataOn`: what was handled, what is on the wire and what is in the reply queue
  make up what was handed over, in this order.

`KInv` holds whether or not an end gives up (`exited`), so the first three theorems
do not rest on `NoProtocolExit`. `ImplementsTransportSafely` is all of
`ImplementsTransport` but its fairness. That a cookie grows with every KEXINIT is
how the model names random cookies, none of which comes again.

`NeverExits` and `SessionIdsAgree` need more: an invariant of both ends and both
wires at once, `TwoEnds`, proved on top of `KInv`. An exchange has a fixed order in
either direction (KEXINIT; the client's value, twice when the guess was wrong, or
the server's reply; NEWKEYS), so a point of it is a number, 4 for each exchange, and
the record of an end tells at which one it reads (`ReadAt`) and at which it has
written (`SentAt`):

- `Line`: the packets on a wire lead step by step from the place where the reader
  is to the place where the writer is (`Route`, `Fits`), with the numbers
  (`Counted`) and the keys (`Keyed`) from those that the reader expects to those
  that the writer uses next. This is what makes every packet decrypt and be one
  that `requirenext` lets through, and it keeps the ends within one exchange of
  each other;
- `Own`: what a record says of itself, beyond `Phases`: which exchange it is in,
  which algorithm it has chosen, of which hash its keys are;
- `Agree`: the hash of the server is that of the client's last value, or the client
  has it already, and the session ids are equal;
- `Tables`: one algorithm `a` is the first that the client prefers and the server
  has a key for, and stays so when `EXT_INFO` narrows the server's table. Both ends
  find `a` (`MatchAgrees`), and judge the guess alike.

Each C function has a second lemma that says what it does, field by field, when
nothing goes wrong (`DoesKexinit`, `DoesRecvKexinit`, `DoesReply`, ...). Reading a
packet is then one case for each end and type (`ServerKexinit`, `ServerValue`,
`ClientReply`, `ClientNewkeys`, ...): the place of the reader and the order of the
places give the state that the peer can be in, which settles the guards of the
handler; the new records and wires are put together again by `LineHead`,
`LineAppend`, `LineNewkeys` and `LineFlush`. TLC agreed with `TwoEnds` on the
instance of `Kex_rekeying` before it was proved.

### Channel and CircBuffer

The constants are any windows, packet size, queue limit and stream lengths. The
invariant has three layers, each proved with the help of the one before; TLC
agreed with all of them on the instance of `Channel_session` and on one with a
longer input.

- `Protocol`. Before the confirmation there is one state at each stage (`Opening`,
  `Confirming`). Afterwards (`Working`), `InUse` says of one end which descriptors
  it can have, which of its flags go together, and that its window fits the room in
  its buffers (`Room`: what the assertions of `writechannel()` ask); `Sent` relates
  what is on a wire to both ends: no data and no second EOF follows EOF and
  nothing follows CLOSE, an end that has seen EOF or CLOSE gets no more data, an end
  that has removed its channel gets nothing at all, and the window with the sender,
  in data under way and in adjustments under way is within the receiver's window;
  `ExecOK` says that the command is asked for once and ties the server's `pid` and
  `exitpid` to the life of the command. `NoneDies` and `WindowsAgree` are parts of it.
- `Output`. Of each stream the first blocks are out, the next in the circular buffer
  and the others in packets in order (`Tracked`); a descriptor of the server is
  closed only when its pipe is read to the end (`Drained`), also when the channel is
  flushed after the exit; and a CLOSE of the server means that the status went
  before it (`StatusOK`). The client closes nothing that still has blocks coming.
- `Input`. While the command runs and has not closed its input, the blocks typed are
  tracked the same way, and once the server has closed the pipe, the user had ended
  the input and the command has all of it. This needs the first two layers: EOF seen
  by the server means that the client has read its stdin to the end and has nothing
  of it under way.

Each C function has one lemma about a record of the channel (`CloseWriteFd`,
`SendClose`, `HalfCloses`, `CheckClose`, ...), what it may have sent is described by
a predicate (`Closing`, `Received`, `SentBlocks`), and one lemma per action turns it
into the next state. The buffers are treated without the arithmetic modulo their
size: a position before and after a wrap differ by it.

### Only model-checked

- Liveness, with the fairness part of `ImplementsTransport`: fairness and ENABLED
  are out of the prover's reach. All properties of `LogMonitor` are of this kind.
- `OneDaemon`, which the code keeps only for events that find the service at rest: a
  theorem would need that as a hypothesis, which Android does not provide.

Every other invariant and action property of a passing run is a theorem.

## 7. Not modelled

Rendering, dialogs and permissions; the arguments and the environment of the
daemon; executable mapping; the comparison of credentials and signatures; the
parsing of `authorized_keys`; in Dropbear the ciphers, compression, padding, the
identification strings, host key files, pty, agent, X11 and TCP forwarding,
several channels in one session and with them the refusals of an OPEN (unknown type,
no channel left, a failing `inithandler`: common-channel.c:917-971; the client opens
one session channel, which is granted), the exit of a command by a signal
(svr-chansession.c:200-235 sends `exit-signal`, which Dropbear's client ignores; the
model's command exits with a status), keepalives and the idle timeout; vendored
libraries and programs (libtomcrypt, libtommath, OpenSSH, rsync, 99% of the lines
of the repository), which this project uses as they are; the build.

## 8. Plan

1. Done: `SshdService`, `Launcher`, `SvrMain` with `PreauthPool`, `SvrAuth`,
   `Credentials`, `LogMonitor`, `Kex` with `Transport`, `Channel` with `CircBuffer`;
   proofs about all of them but `LogMonitor`, whose properties are liveness.
2. Left to model: the parsing of preferences into the arguments of the daemon and
   `ikofi_exe_to_lib`; a composition of `SvrMain` with `SvrAuth`; a channel with a
   pty.
