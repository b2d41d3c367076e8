# PSAppDeployToolkit in TLA+

TLA+ specifications of the stateful core of PSAppDeployToolkit (v4), TLC runs that check
them on small instances, and TLAPS proofs of their main invariants for every instance.

The toolkit is a PowerShell module that deployment scripts are written against, with C#
libraries below it. A management system (Intune, ConfigMgr) starts a script on a machine; the
script opens a *deployment session*, asks the user whether the installation is convenient,
closes and blocks applications, installs, and closes the session, whose exit code goes back to
the management system, which may try again. Paths below are relative to `src/src/`; "DC" is
`PSADT/PSADT/Module/PSADT.Module.Class.DeploymentSession.cs`.

Contents: [the system](#the-system), [what is hard](#what-is-hard), [the
modules](#the-modules), [the runs](#the-runs), [the proofs](#the-proofs),
[disagreements](#disagreements-between-the-code-and-what-it-says),
[what is left out](#what-is-left-out), [plan](#plan).

## The system

| Component | State | Operations | Correct when |
|---|---|---|---|
| **Deployment sessions** (`Open-`, `Close-`, `Initialize-ADTModule`, `Exit-ADTInvocation`, DC) | `$Script:ADT` (session stack, `LastExitCode`, `Initialized`), one object per session | initialise, open (nested), set the exit code, close, abort, exit | the management system gets the verdict of the whole deployment; nothing of an earlier deployment leaks into it; every close releases what the session holds |
| **WIM images and drive substitution** (`Mount-`, `Dismount-ADTWimFile`, DC) | mount points, subst letters, a list in each session | mount, substitute, dismount, remove | each is owned by a session that releases it; letters are not shared |
| **Terminal server install mode** | a mode of the server, a flag in the module | enable, disable | the flag tells the truth, the mode lasts as long as it is asked for |
| **Session callbacks** (`Add-`/`Remove-ADTSession*Callback`) | four lists in the module | add, remove, run | running ends, and every registered one runs |
| **Application execution blocking** (`Block-`, `Unblock-ADTAppExecution`) | Debugger values in the registry, startup tasks, a Finishing callback | block, unblock, recover at the next boot | nothing stays blocked after the deployment, however it ended; what is blocked stays so until then |
| **Installation welcome and deferral** (`Show-ADTInstallationWelcome`, `Get-`/`Set-ADTDeferHistory`) | the deferral key in the registry, the locals of the prompt loop | evaluate, prompt, defer, close applications, reset | users get the deferrals they are promised, no more and no fewer; the installation starts on closed applications, and starts some day |
| **Fluent dialogs and their application thread** (`PSADT.UserInterface.ADTApplication.cs`, `WelcomeDialog`) | a singleton, its dispatcher thread, the one current window | show, update, close | no window is lost track of; a loop of a window ends with it |
| **Process evaluation service** | a cache of running processes, a loop in the window | look up, read, store, update the list | the window shows what is running, a bounded time behind |
| **Progress dialog** (`Show-`, `Close-ADTInstallationProgress`, both styles) | a window on a thread of its own, a Running flag, a Finishing callback | show, update, close | the flag tells the truth, the dialog ends with the deployment |
| **Process execution** (`Start-ADTProcess`, `Test-ADTMutexAvailability`, `Start-ADTMsiProcess`) | the MSI mutex, the child process, the session's exit code | wait, start, wait with a timeout, classify | the mutex is given back; the code that counts is reported |
| Command retries, services | an attempt counter; service states | repeat; stop and start dependents | the number of attempts; no dependent left behind |
| Zero-config MSI detection (DC) | none | choose a file of a directory | the choice its comments describe |

The remaining parts keep no state that outlives a call, or hand it all to Windows: the launchers,
configuration and string tables, the session log, the version 3 compatibility frontend, the user
session and token wrappers, and some hundred single-call utilities over the registry, files,
shortcuts, MSI and the system. The C# logger, the timers, the registry hives and the secure pipes
are libraries that no part of the PowerShell module uses.

How they interact:

- *Everything is one thread per host*, except the dialogs' thread and the C# background tasks.
  Interleavings come from several hosts on one machine, from the startup task, from users and
  applications, and from callbacks.
- `Show-ADTInstallationWelcome` closes the session itself when the user defers or does not
  answer, and relies on that to end the host.
- `Close-ADTSession` runs callbacks before `DeploymentSession.Close`; the Finishing callback of
  `Block-ADTAppExecution` is what unblocks.
- A session that closes as *Complete* or *RestartRequired* deletes the deferral key of its
  install name; this is the link from sessions to deferrals.
- `Start-ADTProcess` sets the exit code of the session when the script itself called it, and throws
  on an error; the frontend's `catch` then closes the session with 60001.
- Every prompt closes the progress dialog first if there is a session; in the fluent style all
  windows share one application that knows one current window.
- What is shared over hosts and reboots is in the registry, the task scheduler, the mount table
  and the mode of the server. All of it outlives a host that is killed.

## What is hard

`PROJECT.json` lists the hazards with their lines. In short:

- *partial failure* inside `Close`, which does six things in a row, and inside
  `Block-ADTAppExecution`, which writes many values before it registers their removal;
- *protocol sequences*: nested sessions, sessions dropped by a fresh start from a console, a
  function that continues after the session is gone, calls repeated in one deployment;
- *crash and reboot* at any point, with state in the registry that the next run believes;
- *stale copies*: `LastExitCode`, the terminal server flag, the list of running processes, a
  stored deadline that two parameters share;
- *two threads and a user*: a progress window whose runspace fails before or after it has announced
  itself, closed by the user before it is seen; a loop that reads processes while they end and the
  window closes;
- *a mutex of somebody else*: Windows Installer's, taken to see that it is free and given back, and
  taken by another between the check and the start;
- *counting*: a number of deferrals that is decremented before the prompt, stored after it, and
  stored too when nobody answers;
- *liveness*: prompts that repeat, callbacks that add callbacks, recovery that needs a reboot.

## The modules

| Module | What it is |
|---|---|
| `DeploymentSession` | sessions, callbacks, WIM images, letters and terminal server mode of one host |
| `DeploymentVerdict` | abstract specification: what exit code a host reports |
| `AppExecutionBlocking` | blocking by several hosts on a machine that reboots |
| `InstallationWelcome` | the prompt loop and the deferral history over many deployments |
| `ProcessExecution` | deployments that run installers, the MSI mutex, and the exit code that results |
| `WelcomeWindow` | the list of running applications in one welcome prompt |
| `InstallationProgress` | the progress dialog under nested sessions and prompts |
| `ExitCodes` | operators: what an exit code means to a session; used by `DeploymentSession`, `DeploymentVerdict` and `ProcessExecution` |
| `MC_DeploymentSession`, `MC_InstallationWelcome`, `MC_ProcessExecution`, `MC_WelcomeWindow` | constants for TLC (those of the others fit in their configurations) |
| `*_proofs`, one for each of the six modules that model code | theorems |
| `DeploymentResources_proofs`, `DeploymentVerdict_proofs` | more theorems about `DeploymentSession`: who owes which image and letter, and the refinement of `DeploymentVerdict`; both build on `DeploymentSession_proofs` |

Definitions have the names of the code where they can. A definition that a `\* Mutant:`
comment introduces is a variant of the one that follows it, with a plausible mistake; each
property is known to fail when its variant takes the original's place (`PROJECT.json`,
`mutants`).

### DeploymentSession

The variables are in groups. `initialized`, `sessions`, `lastExitCode`, `tsFlag`, `callbacks` are
`$Script:ADT`. `pc`, `building`, `todo`, `call` are the call in progress: where it is, the session
under construction, the callbacks it still has to run, its locals. `tsInstall`, `mounted`,
`substed`, `deferHistory` are the machine, which survives the host. `exitStatus` is what the host
reported. `stray` is a history variable: what a failed step or a lost session left behind.

A step is the stretch of one call between two points where control leaves it or where it may
fail: a callback, an external tool, the return to the script.

| Code | Actions |
|---|---|
| `Initialize-ADTModule` | `InitializeADTModule`, `OpenInitialize` |
| `Open-ADTSession` | `OpenBegin`, `OpenInitialize`, then the constructor, then `InvokeCallback`, `CallbacksDone` or `OpenFails` |
| the constructor (DC) | `Construct` (which may mount and substitute), `Finalize`, `ConstructorFailed` |
| `Close-ADTSession` | `CloseADTSession`, `InvokeCallback`, `CallbacksDone` |
| `DeploymentSession.Close` | `Close`: to its end, or stopped by the registry (`CloseThrowsAtHistory`) or by subst (`CloseThrowsAtSubst`) |
| `Exit-ADTInvocation` | `ExitADTInvocation` |
| `SetExitCode`, `Mount-`/`Dismount-ADTWimFile`, `Enable-`/`Disable-ADTTerminalServerInstallMode`, `Set-ADTDeferHistory`, `Add-`/`Remove-ADTSession*Callback` | the action of the same name; also available to a callback |
| the host is killed, or another one starts | `Killed`, `NewHost` |

`DeploymentVerdict` forgets everything but exit codes: the codes of the open sessions, the last
non-zero result, the code due, the last report. It says which code must be reported, and leaves
open how a close can fail. `KeepsVerdict` is the refinement: `codes` are the exit codes of
`sessions`, `verdict` is `lastExitCode` while a session is open, `due` is the code on its way to
`Exit-ADTInvocation`, `report` is `exitStatus`.

### AppExecutionBlocking

`debugger` are the executables with a Debugger value, `tasks` the registered startup tasks,
`booting`/`visiting` the startup tasks at work since the last boot. Each host has a `pc`, the
tasks and executables its call still has to handle (`named`, `todo`) and whether the Finishing
callback is registered (`callback`). `made` records the values the deployment has set and not
removed itself, `refused` that one of its calls has failed.

`Block` follows `Block-ADTAppExecution.ps1`: a task of the same name makes it unblock everything
first (`cleanup`), then it registers its task (`RegisterTask`), sets one value after another
(`SetDebugger`), and last adds the callback (`BlockDone`). `UnblockStep` is the pipeline of
`Unblock-ADTAppExecutionInternal.ps1`, one key a step, then the tasks. `StartupVisit` and
`StartupUnregister` are the same script run by the startup task. `Kill` and `Reboot` may happen
at every step. `Failures` lets the registry and the task scheduler refuse; `Concurrent` lets
deployments and startup tasks overlap.

### InstallationWelcome

One install name on one machine. A deployment (`Start`) calls the function with one of the
`Parameters`; the call checks the disk (`CheckDisk`), works out whether the user may defer
(`Evaluate`), and loops: `LoopLeave`, `LoopPrompt`, or `CloseSilently`. A prompt ends by a click
(`UserClicks`), its timeout (`DialogExpires`), its countdown (`CountdownElapses`) or, in the
classic style, because the applications changed (`FormDisposed`). `Deferred` and `TimedOut` store
the history and close the session; `StopProcesses` closes applications; `Finish` is the rest of the
deployment with its reset of the history; `Killed`, `Tick`, `ApplicationsChange` are the
environment. `used`, `firstDeferred`, `begun` and `stopped` are history variables for the
properties.

What the dialogs can return is taken from their call sites in
`Show-ADTWelcomePromptClassic.ps1` and `Show-ADTWelcomePromptFluent.ps1`: which buttons there are,
what the timers do, which parameters get through.

### ProcessExecution

Hosts and installer processes on one machine. `owner` and `abandoned` are the mutex
`Global\_MSIExecute`, which exists while somebody has a handle to it (`MutexExists`); `installer` are
the processes, a host's or somebody else's. Each host has a `pc`, the `call` it is in, how long that
has `waited`, what the check found (`free`), the `exitCode` of its session; `seen` and `blame` are
history: the codes of its calls, and the call whose error ended its script.

| Code | Actions |
|---|---|
| `Start-ADTProcess` up to the check | `Begin`, `NotFound` |
| `Test-ADTMutexAvailability` | `Acquire` (an abandoned mutex is owned all the same), `Release`, `Tick`, `TimedOut`, `WaitRejected` (a time `WaitOne` does not take) |
| what the check is used for | `Decide`: start, or throw with exit code 1618 |
| the process | `StartProcess`, `StartFails`, `Finished` with `Classify` |
| the frontend's `try`/`catch` and `Close-ADTSession` | `Open`, `Close`, `Killed` |
| installers (external) | `SomeoneInstalls`, `Install`, `Complete`, `InstallerKilled` |

`Raise` is the end of a call that failed: whether it sets the session's code depends on who called
(`SetsCode`), whether the script ends on `ErrorAction`.

### WelcomeWindow

One prompt. `running` and `shielded` are the machine; `window` and `listed` what the user sees;
`age` is the service's cache, an entry being as old as the last read that has stored it; `loop`,
`waited` and `task` are the loop with the evaluation of each application, which looks at the cache
(`Look`) and reads a process in a task of its own (`ReadStored`, `ReadFails`): the application may end
in between, and the read then stores an entry of an application that has gone. `Update` is the UI
thread's. `Cancelled` is the token that closing the window cancels: a wait ends by it
(`DelayCancelled`), a read may meet it (`ReadCancelled`, and then the round is lost,
`RoundCancelled`) or be past its last look at it, store its entry and be listed, after which the
`while` test of the loop sees the token (`Update`). The classic form has a timer that enumerates
(`ClassicTick`, `StopTimer`).
`gone` is a history variable: the lookups an ended application has survived.

### InstallationProgress

`running` is the flag the functions go by, `closeCallback` the Finishing callback, `current` and
`visible` the fluent application's one window, `strays` windows it has lost; `thread` and `syncHash`
are the classic window's runspace and what it tells the host. `pc` is the host's call, which is
sequential; `ThreadStep` is the runspace, which may fail anywhere (`ThreadFails`); `UserCloses` is
Alt+F4.

| Code | Actions |
|---|---|
| `Show-ADTInstallationProgress` | `Show`, then `Fluent*` or `Classic*`, then `Register` |
| `Close-ADTInstallationProgress` | `CloseProgress` and wherever `BeginClose` is: prompts, the callback, `Exit-ADTInvocation`; then `NothingToClose`, `FluentCloses` or `ClassicCloses` to `ClassicEndThrows` |
| prompts, as far as they take windows | `Prompt`, `Dialog` |
| `Open-`, `Close-ADTSession`, `Exit-ADTInvocation` | `OpenSession`, `OpenFails`, `CloseSession`, `Pop`, `ExitADTInvocation`, `Leave` |

### How the modules fit together

`ExitCodes` is shared: what `ProcessExecution` says of the code a deployment closes with is what
`DeploymentSession` does with it, by the same operators. `WelcomeWindow` is inside the prompt of
`InstallationWelcome`: that module's `seen` is a snapshot of the list here. The sessions of
`InstallationProgress` are those of `DeploymentSession`, of which it keeps the deploy modes.

The first three modules share two points, and each states its half. `DeploymentSession` has
`deferHistory` as a set of install names (a close deletes the key exactly when the deployment
completed), `InstallationWelcome` has its content (and `Finish` may reset it or not).
`DeploymentSession` runs any Finishing callback, `AppExecutionBlocking` has the one that unblocks
(`Unblock(h, TRUE)`), `InstallationProgress` the one that closes the dialog. A module that composes them is in the plan.

## The runs

Passing runs:

| Run | Constants | Checks | States |
|---|---|---|---|
| `session_verdict` | 5 exit codes, AllowRebootPassThru or not, 2 nested sessions | `TypeOK`, `Inv`, `FreshVerdict`, `ExitUnderOpenSession`, `FailureSticks`, refinement `KeepsVerdict` | 237,895 |
| `session_resources` | 1 image, 2 letters, 2 nested sessions | `NothingLost`, `DriveExclusive` | 774,940 |
| `session_callbacks` | 1 callback in 4 lists, sessions with and without TerminalServerMode, fairness | `FlagMeansInstall`, `CallsAdvance`, `CallReturns` | 157,696 |
| `blocking_sequential` | 2 hosts, 2 install names, 2 executables, refusals, fairness | `CloseInv`, `SafetyNet`, `UnblockedAtClose`, `BlockEnds` | 65,498 |
| `welcome_deferrals` | fluent dialogs, `Close-ADTSession` returns, 5 ways to call with 2 deferrals each | `HistoryInv`, `NeverTooOften`, `AllGranted`, `ClosedBeforeInstall` | 3,156 |
| `welcome_installs` | classic dialogs, `Close-ADTSession` ends the host, a countdown with DeferDays or DeferDeadline, a clock to 3, fairness | `DaysHold`, `StopsWhenTold`, `GetsInstalled` | 5,502 |
| `process_execution` | 1 host, 2 installers, 6 kinds of call, 2 calls a deployment, fairness | `TypeOK`, `NothingHeld`, `FailureReported`, `BusyIsRetried`, `CallsAdvance`, `CallReturns` | 67,052 |
| `window_list` | 2 applications, both styles, the intervals of the code, fairness | `TypeOK`, `StaleRounds`, `LeavesList`, `GetsListed`, `LoopStops` | 107,301 |
| `progress_dialog` | both styles, 2 nested sessions, 2 lost windows, fairness | `TypeOK`, `NoOrphan`, `NoStrays`, `RunningMeansOpen`, `GoneAtExit`, `CallsAdvance`, `CallReturns` | 27,516 |

What they show:

- **KeepsVerdict.** Whatever fails, is nested, dropped, killed or restarted, the host reports the
  last non-zero result of the sessions since the first was opened, 60001 when the last close
  failed, 60008 when a session could not be opened. **FreshVerdict**, **FailureSticks** and
  **ExitUnderOpenSession** are what one would ask first of it.
- **NothingLost**, **DriveExclusive.** Each mount and letter belongs to a session that will release
  it, or the history variable can name the failure that left it; nested sessions have letters of
  their own.
- **FlagMeansInstall.** The cached flag never claims an install mode the server is not in. The
  converse does not hold, and need not: after a re-initialisation the server may be in install
  mode without the flag.
- **CallReturns.** Callbacks may edit the lists while they are run; the call ends all the same.
  **CallsAdvance** says why: each step of a call lowers `Distance`, or leaves it and takes a callback
  off `todo`, and no step of a callback puts one on.
- **SafetyNet.** While an executable is blocked a startup task exists that will unblock it.
  **UnblockedAtClose.** A deployment that closed left nothing behind, unless one of its own calls
  had failed. **BlockEnds.** With a reboot, nothing stays blocked for ever, failed calls or not.
- **NeverTooOften**, **AllGranted.** Where no dates are involved a user gets exactly the promised number
  of deferrals, through timeouts, kills and attempts in any order; with dates, at most that number. **DaysHold.** The period of DeferDays is counted from the
  first deferred attempt. **StopsWhenTold.** After a deferral or a timeout the deployment neither
  prompts nor installs; this rests on the host ending (see below).
- **ClosedBeforeInstall.** The function returns only after a check that nothing runs.
  **GetsInstalled.** With the classic dialogs and a countdown, a deployment that is retried gets to
  install whatever the user does.
- **NothingHeld.** However the check of the mutex ends, the toolkit does not hold it when it starts
  the installer that needs it. **FailureReported.** The error of an installer the script started is
  what the deployment reports, whatever code an earlier call has left. **BusyIsRetried.** Losing the
  mutex between the check and the start is as good as finding it taken: both are a fast retry.
  **CallReturns.** Installers that come and go, and die holding the mutex, cannot keep a call waiting:
  only a process without an end can, which fairness excludes (`Start-ADTProcess` has no timeout).
  **CallsAdvance.** No matter how often the mutex changes hands, the wait does not begin anew.
- **StaleRounds.** An ended application is found by two more rounds at most, also when a slow read
  stores it after its end. **LeavesList**, **GetsListed.** The list comes to agree with the machine
  for the applications the window knows, unless its loop has ended with an empty list.
  **LoopStops.** The loop ends once the window is closed, wherever the token finds it: in the wait, in
  a lookup, in a read that meets it, or in one that does not and is still listed.
- **NoOrphan**, **NoStrays**, **RunningMeansOpen.** Flag and window agree between calls, but for a
  user who closes the window, a prompt without a session, and a runspace that fails late.
  **GoneAtExit.** The end of a deployment closes the dialog, although a nested silent session
  keeps its callback from doing so: the check in `Exit-ADTInvocation` is what does. **CallReturns.**
  Every call ends, or waits in one of three known places (`Hangs`). **CallsAdvance.** It never goes round
  in circles: the last close closes the dialog by its callback and again before the host exits, and a
  dialog that cannot be closed is given up, not tried anew.

Runs that end in a violation are listed under
[disagreements](#disagreements-between-the-code-and-what-it-says).

### Bounds

- `MaxDepth = 2` sessions at once: one is the first and the last, two makes the difference between
  nested and not, which is all that the code asks of the length. It only guards `OpenBegin`.
  `session_callbacks` has one session: nesting adds no callback list, and `FlagMeansInstall` is also
  a part of `Inv`, which is proved for every depth.
- Exit codes: one of each class (success, reboot, fast retry, and 60001 and 60008, which the
  toolkit sets itself). Codes of one class are treated alike, except for 60001 and 60008, which are
  there.
- One image and two letters: letters must be able to run out and to be free.
- Two hosts, two tasks and two executables: the second is what a loop has yet to reach, the other
  host what interferes where `Concurrent` lets it.
- Two deferrals: one that is not the last. `Horizon` bounds the clock, in units of no fixed
  length; periods and deadlines are 1, so that some instant is before, at and after each. In
  `welcome_installs` the explicit deadline never lies behind the end of the days (see below).
- One host in `process_execution`: the installers stand for everybody else, and another host is to
  the first no more than an installer with a wait; two of them, so that one can take the mutex while
  the host's own is started. Two calls: what the first leaves in the session is what the second
  finds. `LongestWait = 2`: a wait that ends in time, on time, and one that is too long to ask for.
- Two applications in `window_list`, so that the list can change while it does not empty, with the
  intervals of the code (2, 5 and 20 seconds); ages stop at the first value that is old to everybody.
- `MaxStrays = 2` windows lost in `progress_dialog`, `MaxDepth = 2` as for the sessions.
- Everything else is unbounded: deployments, kills, reboots and attempts repeat for ever.

The theorems have none of these bounds, except that `MaxDepth` is any number.

### Deadlock

No configuration turns the deadlock check off. A host that has ended can start anew, and a
deployment can always be tried again.

### Fairness

- `DeploymentSession!FairSpec`: weak fairness of the steps of a call. The code runs its statements
  one after the other; a call can only be stopped by a callback or a tool that does not return,
  which the model takes to return. Nothing is assumed of the script.
- `AppExecutionBlocking!FairSpec`: the machine is rebooted some day (weak fairness of `Reboot`), and
  reboots do not for ever cut a startup task off from reaching a key (strong fairness of each
  `StartupVisit`). No fairness of the deployments: they may be killed, or wait, for ever. This is
  what the startup task is for.
- `InstallationWelcome!FairSpec`: the management system retries; the steps of a call, its timers
  and the applications' reaction to being told to stop are not prevented for ever (strong
  fairness, because kills, restarts of applications and the user can disable each of them for a
  while). Nothing is assumed of the user: neither a click nor the absence of one.
- `ProcessExecution!FairSpec`: weak fairness of the steps of each call and of each installer that has
  started. That an installer ends is an assumption the code makes too: it waits without a limit.
  Not of the script, nor of others who start installers.
- `WelcomeWindow!FairSpec`: time passes, the UI thread and the tasks are scheduled, and a read of a
  process comes to some end (nothing in the code bounds it). Nothing of the applications or of the user:
  that the window is closed is not assumed either.
- `InstallationProgress!FairSpec`: the host runs the call it is in, the runspace its script. Neither
  the next call nor a click of the user.

## The proofs

All theorems are checked by TLAPS for every value of the constants that satisfies the modules'
named assumptions, which only say what the constants are.

**DeploymentSession_proofs.** The inductive invariant is `Inv`: the types, `ControlOK`,
`FreshVerdict`, `FlagMeansInstall`, `ExitReason` and `ExitUnderOpenSession`.
`ControlOK` says what each `pc` implies about the session under construction and the list: without
it nothing would say that `Front(sessions)` is taken of a non-empty list, or that a close has a
target. `ExitReason` says why `pc = "exit"` may be reached under an open session, which
`ExitUnderOpenSession` alone, a statement about the state after, does not. The proof that a
step preserves it has a lemma for each action, after lemmas about the helpers (`FinalCode`,
`WithExitCode`, the update of the top of the list).

- `Invariant`, `TypeCorrect`, `DeploymentsStartFresh`, `FlagIsTrue`, `ExitsAreExplained`: `Spec => []P` for
  `Inv`, `TypeOK`, `FreshVerdict`, `FlagMeansInstall`, `ExitUnderOpenSession`.
- `FailuresStick`: the action property `FailureSticks`, from the same invariant.
- `CallsComeToAnEnd`: the action property `CallsAdvance`, for any lists of callbacks. It is the part of
  `CallReturns` that is safety: `Distance` is a natural number and lists are finite, so that a call
  which keeps taking steps ends. That a step is possible at every `pc`, and is taken, is enabledness
  and fairness, and left to TLC.

**DeploymentResources_proofs.** `ResourceInv` is `NothingLost`, `DriveExclusive` and `EndedStray`: once a
host has ended, what its sessions held is in `stray`, so that the next host may start with an empty
list. With `Inv` it is inductive (`ResourceInvariant`). The proof treats a list of sessions as what it
holds: `Wims`, `Drives` and `Exclusive` of a concatenation, of a list without its last session, and of
one whose last session is replaced are lemmas (`HeldByBoth`, `HeldByTop`), and each action is then a
statement about sets. The hard cases are the constructor, which records an image with the enclosing
session too and picks a letter that no session has, and the three ways `Close` ends, each of which
leaves to `stray` exactly what it did not release. `ResourcesAreAccounted` and `LettersAreExclusive` are
`NothingLost` and `DriveExclusive`, for every set of images and letters and every depth.

**DeploymentVerdict_proofs.** `SessionsKeepTheVerdict`: `Spec => KeepsVerdict`. The initial states map to
`Verdict!Init`, and each action to an action of `DeploymentVerdict` or to a stutter: `Finalize` to `Begin`,
`SetExitCode` and the start of a close to `SetCode`, `Close` to `Finish`, or to `FailToOpen` when it is the
constructor that has failed, `ExitADTInvocation` to `Report`, a kill or a fresh start to `Abandon`. Besides `Inv` the steps need `OpeningInv`
(`OpeningsStartClean`): the first session opens with `LastExitCode` 0, and the code of a session under
construction is 0, or 60008 when its constructor has failed.

**AppExecutionBlocking_proofs.**

- `BlockingTypeCorrect`: types, with overlap and refusals.
- `InterruptionIsCovered`: `SafetyNet` when deployments do not overlap (`~Concurrent`), for any
  number of hosts, names and executables and with refusals. `SafetyNet` is not inductive: when a task
  is unregistered, one has to know that the values are gone. `SequentialInv` adds that whoever is to
  unregister a task has yet to visit each executable that is blocked, and that at most one is at
  work.
- `NothingBlockedAfterClose`, `ValuesAreAccountedFor`: `UnblockedAtClose` and `CloseInv` under the same
  hypothesis. `CloseInv` adds where the values a deployment has made can be: nowhere unless its
  callback is registered, one of its calls has failed, or it is still setting them.

The hypothesis is needed (`MC_Blocking_overlap.cfg`), and so is the exception of `UnblockedAtClose`
(`MC_Blocking_partial.cfg`).

**InstallationWelcome_proofs.**

- `DeferralsAreLimited`, `HistoryIsKept`: when the ways to call that count deferrals grant `n` of them
  (`Limited(n)`), no prompt offers an (n+1)th, for every `n > 0`, every clock, style and horizon, and
  whatever calls that count none, such as an uninstallation, come in between. The invariant is
  `HistoryInv`: used deferrals and those the registry, or the call in progress, says are left never add
  up to more than `n`; of a call that counts none it says that it has none to give. Its second half
  needs that a call which may defer has a non-negative count.
- `DeferralsAreGranted`: `AllGranted`, when all ways to call grant `n` and no dates are involved (`CountOnly(n)`). `GrantInv`
  is the other direction of `HistoryInv`: the sum is never less than `n` either, and a call with a
  deferral to give offers it. Without the hypothesis it is false (`welcome_uninstall`).
- `DaysAreCounted`: `DaysHold`, when the clock is in UTC and whoever may defer has the same `DeferDays`
  or a deadline no later (`DatesWithin(d)`). `DaysInv` bounds the deadline in the registry by `Limit`,
  `d` after the first deferral, and says what a call in progress may put in its place.
- `NothingRunsAtInstall`: `ClosedBeforeInstall` with the fluent dialogs, a step at a time.
- `DeferredMeansOver`: `StopsWhenTold` where `Close-ADTSession` ends the host, from `Over`: such a
  deployment is idle.

**ProcessExecution_proofs.** `Inv` adds to the properties which labels have a call (`CallOK`) and what
`blame` implies about the code of the session while the script is being ended (`BlameOK`): that it
is still there when `Close` processes it is the point of `FailureReported`. `TypeCorrect`,
`MutexReturned` (`NothingHeld`), `FailuresReported` and `BusyRetried` hold for any number of hosts,
installers, calls and codes; `BusyRetried` uses that 1618 is a fast retry code, which the
configuration's default makes it (`ListAssumption`). `CallsComeToAnEnd` is `CallsAdvance`: a call's own
steps take it nearer to its end, and the lemmas about everybody else's say that these do not touch it.

**WelcomeWindow_proofs.** `TypeCorrect`, and `StalenessBounded` (`StaleRounds`) for any intervals. What
makes it inductive is `Aged`: a cached entry of an application that has ended is at least
`Interval` times the lookups that have missed it old, plus the seconds since the last; when that
exceeds `LoopFresh` the loop does not believe it any more. `Flow` says which of the steps a round is
at, `FoundInTime` what the round has collected so far.

**InstallationProgress_proofs.** One invariant in parts: `Halves` (each style leaves the other's
variables alone), `Runspace` (where the thread can be while the host is somewhere), `Closing`, `Flag`,
`Room`, and the two properties `NoStrays` and `GoneAtExit` themselves. From it `TypeCorrect`, `NothingLeftBehind`
(`NoOrphan`), `WindowsTracked` (`NoStrays`), `FlagTells` (`RunningMeansOpen`) and `GoneWhenDone` (`GoneAtExit`),
for every depth and every number of lost windows. `CallsComeToAnEnd` is `CallsAdvance`, which needs the
types alone.

Every invariant and action property of a passing run is now stated by a theorem, and so is the
refinement. Only model-checked: liveness (`CallReturns` of three modules, `BlockEnds`, `GetsInstalled`,
`LeavesList`, `GetsListed`, `LoopStops`), which is out of the prover's reach, and the counterexamples of
the next section, which are TLC's.

## Disagreements between the code and what it says

Three runs end with a counterexample to one property, stated from a comment or a help text;
`PROJECT.json` quotes both sides with their lines.

| Run | Property | What happens |
|---|---|---|
| `welcome_uninstall` | `AllGranted` | a prompt without deferrals that times out stores 0 left, and costs the next deployment all of its deferrals |
| `process_late_failure` | `FailureKept` | 60001 does not replace a code the session has: a script that throws after an installer returned 3010 is reported as a success |
| `progress_again` | `OpensAgain` | the classic progress window can be made once in a host: its XAML is a reader, at its end after the first |

Seven more configurations are kept beside them, each of which TLC ends with a counterexample to the
one property it checks (`tlc -config <configuration> <module>`):

| Configuration (module) | Property | What happens |
|---|---|---|
| `MC_Session_ts_nested` (`MC_DeploymentSession`) | `TerminalServerHeld` | the close of a nested session takes the server out of install mode under an outer session that asked for it (DC:869) |
| `MC_Blocking_partial` (`AppExecutionBlocking`) | `AlwaysUnblockedAtClose` | a refused value leaves the earlier ones set, with no callback to remove them; the startup task still does (`Block-ADTAppExecution.ps1:129`) |
| `MC_Blocking_overlap` (`AppExecutionBlocking`) | `SafetyNet` | of two deployments, one unregisters the startup task of the other, which goes on blocking (`Unblock-ADTAppExecution.ps1:53`) |
| `MC_Welcome_zone` (`MC_InstallationWelcome`) | `DaysHold` | the deadline of DeferDays is a local time with the mark of universal time (`Show-ADTInstallationWelcome.ps1:377`) |
| `MC_Welcome_fluent_countdown` (`MC_InstallationWelcome`) | `GetsInstalled` | the countdown never reaches the fluent dialog (`Show-ADTWelcomePromptFluent.ps1:80`) |
| `MC_Process_msi_reboot` (`MC_ProcessExecution`) | `RebootReported` | only calls made by the script itself set the session's code: the 3010 of an MSI started by `Start-ADTMsiProcess` does not reach the management system although AllowRebootPassThru asks for it (`Start-ADTProcess.ps1:217`) |
| `MC_Window_dynamic` (`MC_WelcomeWindow`) | `ReflectsRunning` | the loop of the fluent window ends with an empty list, and only looks at the applications that ran when the prompt was made (`PSADT.UserInterface.WelcomeDialog.xaml.cs:366`) |

The models and the reading behind them show some more. Each can be seen by changing a configuration
as said, or is plain in the code:

- `StopsWhenTold` with `CloseReturns = TRUE`: where `Close-ADTSession` returns, the loop of
  `Show-ADTInstallationWelcome` prompts again after a deferral (`Show-ADTInstallationWelcome.ps1:607`).
- `ClosedBeforeInstall` with `DialogStyle = "Classic"`: Continue trusts the list of processes from
  before the prompt (line 478).
- `DaysHold` with a `DeferDeadline` behind the end of `DeferDays`: the explicit deadline is stored,
  and read back as the one of the days (line 393).
- `GetsInstalled` with the classic dialogs and `-ForceCountdown`: the tick after the countdown reads a
  property `WelcomeState` does not have (`Show-ADTWelcomePromptClassic.ps1:185`), which is an error under
  the module's `Set-StrictMode -Version 3` (`ImportsFirst.ps1:79`). No button is clicked, the prompt stays
  until the user clicks one or the applications change. What WinForms makes of the error is not modelled.
- A second `Block-ADTAppExecution` in a deployment takes the task of the first for the remains of an
  earlier attempt, and drops what it blocked (`Block-ADTAppExecution.ps1:96`).
- The later of two calls decides: a success after an installer that asked for a reboot sets the
  session's code to 0 (`Start-ADTProcess.ps1:542`).
- A host that looks at the mutex owns it for a moment, and another installer that looks just then
  exits with 1618.
- `MsiExecWaitTime` above Int32 milliseconds makes `WaitOne` throw, which counts as *available*; the
  release of the mutex, never acquired, then throws too, and the call fails with that
  (`WaitRejected`).
- A prompt shown without a session does not close the progress dialog first: in the fluent style the
  window stays on the screen and nothing can close it any more (`NoStrays` says so).
- A user who closes the fluent progress window before it was seen to be visible leaves the host
  asking for ever (`Show-ADTInstallationProgressFluent.ps1:60`); a classic runspace that fails after it
  has announced its window leaves it waiting on a dispatcher that has ended, or throws from
  `EndInvoke` with the flag still set (`Hangs`, `ClassicEndThrows`).
- A silent session nested in an interactive one does not close the dialog by its callback, which
  returns at once in silent mode (`Close-ADTInstallationProgress.ps1:66`); `Exit-ADTInvocation` does.
- The fluent window's interval is 2 seconds whatever `DynamicProcessEvaluationInterval` says; the trace
  events of `ProcessEvaluationService` carry the name of the image file and match no process name;
  the service is never disposed.
- `Invoke-ADTServiceAndDependencyOperation.ps1:91` passes `-Force` to `Start-Service`, which has no such
  parameter: no dependent is ever started, and that is only logged, although the help of
  `Start-ADTServiceAndDependencies` promises it. Line 101 looks an enum up in a table with string keys,
  so that `PendingStatusWait` is not used; `Stop-Service -Force` stops dependents under
  `SkipDependentServices` too.
- Callbacks can be added without a session, against the help of the functions that add them; before
  the first session it is the only time at which a Starting callback is of use.

## What is left out

Of the modelled components:

- *Sessions.* Callbacks that open or close sessions themselves; re-reading of
  parameters in compatibility mode; failing log writes; the difference between `exit` and
  `Environment.Exit`; changes of the terminal server mode by other hosts; the sets of success and
  reboot codes are the same for all sessions; the frontends' forced re-import of the module is
  `NewHost`; the log setup of the constructor.
- *Images and letters.* Hash checks, `-Force`, dismounting by path.
- *Blocking.* Debugger values of other programs (and that the toolkit overwrites them); the value
  that holds the blocking command; refusals of the startup task's removals, which runs as SYSTEM.
- *Welcome.* One call in each deployment; the applications are one Boolean; of the
  countdown parameters one at a time; process detection is on; minimising, PersistPrompt and the
  windows of PromptToSave; dates that cannot be parsed; errors of the dialog itself. Of an outer
  session that stays open when `Close-ADTSession` returns, only the return is modelled. The code
  decides once a call whether the user may defer, and `DaysHold` is stated of that instant.

- *Process execution.* Transforms, patches and the log files of `Start-ADTMsiProcess`;
  `Start-ADTMspProcess`; processes run as another user; output streams; `-PassThru`.
- *Welcome window.* The event watchers (see above); descriptions and icons; how many processes an
  application has; the countdown, which is `InstallationWelcome`'s.
- *Progress dialog.* What prompts return; balloon tips, dialog boxes, help consoles; `Dispose` of
  `AdtApplication`, which the toolkit never calls; texts and positions.

The components that are not modelled, with the reason, are in `PROJECT.json`. The log files,
launchers and utilities have no protocol; C# wrappers of Windows functions do what the system does;
four C# libraries are used by nothing in the module. The JavaScript and TypeScript in the repository
(an editor, a documentation template) belongs to the vendored `lib/wpfui` and is not part of the
program; everything modelled here is PowerShell and C#.

## Plan

What is left, in order of what it would add:

1. `Deployment`: sessions, blocking and welcome composed for one install name: a deferral leaves
   nothing blocked, and a completed deployment starts the next with a full set of deferrals.
2. `Services`: a service and its dependents with failing operations. Nearly all of its state is the
   service control manager's.
3. `ZeroConfig`: the choice of an MSI as operators, against its comments.

Proofs to add: the safety half of `BlockEnds` (a pass of the startup task takes it nearer to its end, and
only removes what it visits) and of `LoopStops`, as `CallsAdvance` is of `CallReturns`.
