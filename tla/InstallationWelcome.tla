------------------------ MODULE InstallationWelcome ------------------------
(***************************************************************************)
(* Show-ADTInstallationWelcome and the deferral history: one install name  *)
(* on one machine, deployed again and again until it is installed.         *)
(*                                                                         *)
(* A deployment opens a session, calls Show-ADTInstallationWelcome once    *)
(* and, when that returns, installs.  The call works out whether the user  *)
(* may still defer, and prompts until the applications to be closed are    *)
(* closed or the user defers.  Time passes, and applications are started   *)
(* and closed, between any two of its steps; the host may be killed at     *)
(* each of them.  The deferral history survives in the registry.           *)
(*                                                                         *)
(* Time is counted in units of no fixed length.                            *)
(***************************************************************************)
EXTENDS Integers

CONSTANTS
    Parameters,     \* ways the deployments of the install name call the function
    DialogStyle,    \* "Fluent" or "Classic"
    CloseReturns,   \* Close-ADTSession hands control back: NoExitOnClose, a console
    Offset,         \* local time minus UTC
    Horizon         \* bound: the last instant of the clock

None == -1

ASSUME ParametersAssumption ==
    Parameters \subseteq
      [allowDefer : BOOLEAN, deferClose : BOOLEAN, times : Nat, days : Nat,
       deadline : Nat \cup {None}, countdown : {"none", "close", "forceClose", "force"},
       silent : BOOLEAN, checkDisk : BOOLEAN]

ASSUME SettingsAssumption ==
    /\ DialogStyle \in {"Fluent", "Classic"}
    /\ CloseReturns \in BOOLEAN
    /\ Offset \in Int
    /\ Horizon \in Nat

VARIABLES
    now,            \* the clock, in local time
    running,        \* one of the applications to be closed is running
    history,        \* the deferral key: DeferTimesRemaining and DeferDeadline
    \* the call in progress
    pc,
    p,              \* its parameters
    sessionOpen,
    allowDefer,     \* $AllowDefer
    deferTimes,     \* $DeferTimes
    deadline,       \* $deferDeadlineUniversal
    promptResult,   \* $promptResult
    seen,           \* $welcomeState.RunningProcesses is not empty
    \* history
    begun,          \* when the call looked whether the user may defer
    firstDeferred,  \* when the first call did that was deferred
    used,           \* counted deferrals used since the last completed installation
    stopped         \* the deployment was deferred, or given up after a timeout

call == <<p, sessionOpen, allowDefer, deferTimes, deadline, promptResult, seen, begun, stopped>>
vars == <<now, running, history, pc, call, firstDeferred, used>>

-----------------------------------------------------------------------------
Labels == {"idle", "disk", "evaluate", "loop", "prompt", "close", "install"}
Results == {"none", "Continue", "Close", "Defer", "Timeout"}

NoHistory == [times |-> None, deadline |-> None]

Init ==
    /\ now = 0
    /\ running \in BOOLEAN
    /\ history = NoHistory
    /\ pc = "idle"
    /\ p \in Parameters
    /\ sessionOpen = FALSE
    /\ allowDefer = FALSE
    /\ deferTimes = 0
    /\ deadline = None
    /\ promptResult = "none"
    /\ seen = FALSE
    /\ begun = 0
    /\ firstDeferred = None
    /\ used = 0
    /\ stopped = FALSE

\* The deployment is run by its management system.
Start(q) ==
    /\ pc = "idle"
    /\ p' = q
    /\ pc' = "disk"
    /\ sessionOpen' = TRUE
    /\ allowDefer' = q.allowDefer
    /\ deferTimes' = q.times
    /\ deadline' = None
    /\ promptResult' = "none"
    /\ seen' = FALSE
    /\ stopped' = FALSE
    /\ UNCHANGED <<now, running, history, begun, firstDeferred, used>>

\* Mutant: the host is not ended, although Close-ADTSession should not return.
StopScript_GoesOn(next) ==
    /\ pc' = next
    /\ sessionOpen' = FALSE
    /\ stopped' = TRUE

\* Close-ADTSession with one of the fast retry codes: the deferral history
\* stays.  It ends the host, or returns and lets the function go on.  Without
\* a session it throws, which ends the script.
StopScript(next) ==
    /\ pc' = IF CloseReturns /\ sessionOpen THEN next ELSE "idle"
    /\ sessionOpen' = FALSE
    /\ stopped' = TRUE

Asked == p.allowDefer \/ p.deferClose

\* Too little disk space.  Should the function go on, it cannot read the
\* deferral history without a session.
CheckDisk ==
    /\ pc = "disk"
    /\ \/ /\ pc' = "evaluate"
          /\ UNCHANGED <<sessionOpen, stopped>>
       \/ /\ p.checkDisk
          /\ StopScript(IF Asked THEN "idle" ELSE "evaluate")
    /\ UNCHANGED <<now, running, history, p, allowDefer, deferTimes, deadline, promptResult,
                   seen, begun, firstDeferred, used>>

-----------------------------------------------------------------------------
(* Whether the user may defer.                                              *)
\* Mutant: the last deferral is offered once more.
TimesLeft_OneMore ==
    IF Asked /\ p.times # 0
    THEN (IF history.times > 0 THEN history.times ELSE p.times) - 1
    ELSE p.times

TimesLeft ==
    IF Asked /\ p.times # 0
    THEN (IF history.times # None THEN history.times ELSE p.times) - 1
    ELSE p.times

\* Now.AddDays(DeferDays) is written with the mark of universal time and read
\* back as such: the local time stands, and is later compared with UTC.
Utc == now - Offset

\* Mutant: the days are counted from every call anew.
DaysDeadline_Restarted == now + p.days

DaysDeadline == IF history.deadline # None THEN history.deadline ELSE now + p.days

\* An explicit deadline replaces the one from DeferDays.
Evaluate ==
    LET timesOK == Asked /\ ~(p.times # 0 /\ TimesLeft < 0)
        daysOK == timesOK /\ ~(p.days # 0 /\ Utc > DaysDeadline)
        deadlineOK == daysOK /\ ~(p.deadline # None /\ Utc > p.deadline)
    IN /\ pc = "evaluate"
       /\ deferTimes' = TimesLeft
       /\ allowDefer' = deadlineOK
       /\ deadline' = IF daysOK /\ p.deadline # None THEN p.deadline
                      ELSE IF timesOK /\ p.days # 0 THEN DaysDeadline
                      ELSE None
       /\ begun' = now
       /\ pc' = "loop"
       /\ UNCHANGED <<now, running, history, p, sessionOpen, promptResult, seen,
                      firstDeferred, used, stopped>>

-----------------------------------------------------------------------------
(* The loop: look for running applications, then leave it or prompt.        *)
Leaves ==
    /\ ~running
    /\ \/ promptResult \in {"Defer", "Close"}
       \/ IF allowDefer THEN p.deferClose ELSE p.countdown # "force"

LoopLeave ==
    /\ pc = "loop"
    /\ ~p.silent
    /\ Leaves
    /\ pc' = "install"
    /\ UNCHANGED <<now, running, history, call, firstDeferred, used>>

LoopPrompt ==
    /\ pc = "loop"
    /\ ~p.silent
    /\ ~Leaves
    /\ seen' = running
    /\ pc' = "prompt"
    /\ UNCHANGED <<now, running, history, p, sessionOpen, allowDefer, deferTimes, deadline,
                   promptResult, begun, firstDeferred, used, stopped>>

\* Silent: the applications are told to stop, and that is that.
CloseSilently ==
    /\ pc = "loop"
    /\ p.silent
    /\ running' \in {running, FALSE}
    /\ pc' = "install"
    /\ UNCHANGED <<now, history, call, firstDeferred, used>>

-----------------------------------------------------------------------------
(* What a prompt can come back with.  The Fluent dialog is not told of any  *)
(* countdown.                                                               *)
ShowDefer == allowDefer /\ (deferTimes >= 0 \/ deadline # None)
ShowCountdown ==
    /\ DialogStyle = "Classic"
    /\ \/ p.countdown \in {"forceClose", "force"}
       \/ p.countdown = "close" /\ ~ShowDefer

\* What the user may click.
Clicks ==
    (IF ShowDefer THEN {"Defer"} ELSE {})
      \cup (IF DialogStyle = "Fluent" \/ seen THEN {"Close"} ELSE {})
      \cup (IF DialogStyle = "Classic" THEN {"Continue"} ELSE {})

\* Mutant: the tick only ever clicks Continue.
CountdownResult_Continues == "Continue"

\* The tick after the countdown has run out.
CountdownResult == IF seen THEN "Close" ELSE "Continue"

Returned(result) ==
    /\ promptResult' = result
    /\ UNCHANGED <<now, p, deferTimes, allowDefer, deadline, seen, begun>>

\* Nobody has closed the applications: a click on Continue prompts again.
Continued ==
    /\ Returned("Continue")
    /\ pc' = IF seen THEN "loop" ELSE "install"
    /\ UNCHANGED <<running, history, sessionOpen, firstDeferred, used, stopped>>

CloseProcesses ==
    /\ Returned("Close")
    /\ pc' = "close"
    /\ UNCHANGED <<running, history, sessionOpen, firstDeferred, used, stopped>>

\* Mutant: a deferral leaves the number of deferrals as it found it.
StoreDeferral_NotCounted ==
    /\ history' = [times |-> IF p.times = 0 THEN deferTimes ELSE deferTimes + 1,
                   deadline |-> IF deadline # None THEN deadline ELSE history.deadline]
    /\ used' = IF allowDefer /\ p.times # 0 THEN used + 1 ELSE used
    /\ firstDeferred' = IF firstDeferred = None THEN begun ELSE firstDeferred

\* Set-ADTDeferHistory; a deferral is used when it was there to be used.
StoreDeferral ==
    /\ history' = [times |-> deferTimes,
                   deadline |-> IF deadline # None THEN deadline ELSE history.deadline]
    /\ used' = IF allowDefer /\ p.times # 0 THEN used + 1 ELSE used
    /\ firstDeferred' = IF allowDefer /\ firstDeferred = None THEN begun ELSE firstDeferred

Deferred ==
    /\ Returned("Defer")
    /\ IF sessionOpen THEN StoreDeferral ELSE UNCHANGED <<history, firstDeferred, used>>
    /\ StopScript("loop")
    /\ UNCHANGED running

TimedOut ==
    /\ Returned("Timeout")
    /\ IF sessionOpen /\ (deferTimes >= 0 \/ deadline # None)
       THEN StoreDeferral
       ELSE UNCHANGED <<history, firstDeferred, used>>
    /\ StopScript("loop")
    /\ UNCHANGED running

Outcome(result) ==
    \/ result = "Continue" /\ Continued
    \/ result = "Close" /\ CloseProcesses
    \/ result = "Defer" /\ Deferred
    \/ result = "Timeout" /\ TimedOut

UserClicks ==
    /\ pc = "prompt"
    /\ \E result \in Clicks : Outcome(result)

DialogExpires ==
    /\ pc = "prompt"
    /\ ~ShowCountdown
    /\ TimedOut

\* With -ForceCountdown the tick looks at a property WelcomeState has not got,
\* which is an error in strict mode: no button is clicked, the form stays.
CountdownElapses ==
    /\ pc = "prompt"
    /\ ShowCountdown
    /\ p.countdown # "force"
    /\ Outcome(CountdownResult)

\* The classic form looks again every two seconds, and disposes of itself
\* when the applications have all been closed or the first one is started.
FormDisposed ==
    /\ pc = "prompt"
    /\ DialogStyle = "Classic"
    /\ running # seen
    /\ Returned("none")
    /\ pc' = "loop"
    /\ UNCHANGED <<running, history, sessionOpen, firstDeferred, used, stopped>>

\* Mutant: once told to stop, an application counts as stopped.
StopProcesses_NotChecked ==
    /\ pc = "close"
    /\ running' \in {running, FALSE}
    /\ pc' = "install"
    /\ UNCHANGED <<now, history, call, firstDeferred, used>>

\* They are told to stop; the loop will look whether they did.
StopProcesses ==
    /\ pc = "close"
    /\ running' \in {running, FALSE}
    /\ pc' = "loop"
    /\ UNCHANGED <<now, history, call, firstDeferred, used>>

-----------------------------------------------------------------------------
\* Mutant: the deferral history outlives the installation.
Finish_KeepsHistory ==
    /\ pc = "install"
    /\ pc' = "idle"
    /\ sessionOpen' = FALSE
    /\ \/ UNCHANGED <<history, firstDeferred, used>>
       \/ /\ sessionOpen
          /\ history' = history
          /\ firstDeferred' = None
          /\ used' = 0
    /\ UNCHANGED <<now, running, p, allowDefer, deferTimes, deadline, promptResult, seen,
                   begun, stopped>>

(* The rest of the deployment.  A session that closes as Complete or        *)
(* RestartRequired resets the deferral history, one that failed does not.   *)
Finish ==
    /\ pc = "install"
    /\ pc' = "idle"
    /\ sessionOpen' = FALSE
    /\ \/ UNCHANGED <<history, firstDeferred, used>>
       \/ /\ sessionOpen
          /\ history' = NoHistory
          /\ firstDeferred' = None
          /\ used' = 0
    /\ UNCHANGED <<now, running, p, allowDefer, deferTimes, deadline, promptResult, seen,
                   begun, stopped>>

Killed ==
    /\ pc # "idle"
    /\ pc' = "idle"
    /\ sessionOpen' = FALSE
    /\ UNCHANGED <<now, running, history, p, allowDefer, deferTimes, deadline, promptResult,
                   seen, begun, firstDeferred, used, stopped>>

Tick ==
    /\ now < Horizon
    /\ now' = now + 1
    /\ UNCHANGED <<running, history, pc, call, firstDeferred, used>>

ApplicationsChange ==
    /\ running' = ~running
    /\ UNCHANGED <<now, history, pc, call, firstDeferred, used>>

Next ==
    \/ \E q \in Parameters : Start(q)
    \/ CheckDisk
    \/ Evaluate
    \/ LoopLeave
    \/ LoopPrompt
    \/ CloseSilently
    \/ UserClicks
    \/ DialogExpires
    \/ CountdownElapses
    \/ FormDisposed
    \/ StopProcesses
    \/ Finish
    \/ Killed
    \/ Tick
    \/ ApplicationsChange

Spec == Init /\ [][Next]_vars

\* The management system tries again until the deployment succeeds; a script
\* that is not killed runs on, its timers run out, and an application that is
\* told to stop again and again stops in the end.  None of these is prevented
\* for ever.  The user may do anything, or nothing.
FairSpec ==
    /\ Spec
    /\ WF_vars(\E q \in Parameters : Start(q))
    /\ SF_vars(CheckDisk)
    /\ SF_vars(Evaluate)
    /\ SF_vars(LoopLeave)
    /\ SF_vars(LoopPrompt)
    /\ SF_vars(DialogExpires)
    /\ SF_vars(CountdownElapses)
    /\ SF_vars(StopProcesses /\ ~running')

-----------------------------------------------------------------------------
TypeOK ==
    /\ now \in Nat
    /\ running \in BOOLEAN
    /\ history \in [times : Nat \cup {None}, deadline : Nat \cup {None}]
    /\ pc \in Labels
    /\ p \in Parameters
    /\ sessionOpen \in BOOLEAN
    /\ allowDefer \in BOOLEAN
    /\ deferTimes \in Nat \cup {None}
    /\ deadline \in Nat \cup {None}
    /\ promptResult \in Results
    /\ seen \in BOOLEAN
    /\ begun \in Nat
    /\ firstDeferred \in Nat \cup {None}
    /\ used \in Nat
    /\ stopped \in BOOLEAN

(* "The number of times the installation can be deferred", whatever becomes *)
(* of the calls in between: no prompt offers one deferral more.              *)
NeverTooOften ==
    pc = "prompt" /\ sessionOpen /\ allowDefer /\ p.times # 0 => used < p.times

(* Nor one less: without a deadline, a prompt offers to defer as long as     *)
(* fewer than DeferTimes deferrals have been used, timeouts included.        *)
AllGranted ==
    pc = "prompt" /\ sessionOpen /\ Asked /\ p.days = 0 /\ p.deadline = None /\ p.times # 0
        => (used < p.times => allowDefer)

(* "The number of days since first run that the installation can be          *)
(* deferred": no call after that many days from the first one that was       *)
(* deferred lets the user defer again.                                       *)
DaysHold ==
    pc = "prompt" /\ sessionOpen /\ allowDefer /\ p.days # 0 /\ firstDeferred # None
        => begun <= firstDeferred + p.days

(* The function returns to the script only when none of the applications is  *)
(* running, unless it was told to be silent.                                 *)
ClosedBeforeInstall ==
    [][pc # "install" /\ pc' = "install" => ~running \/ p.silent]_vars

(* "Stop the script (user chose to defer)", or did not answer in time: the   *)
(* deployment does not prompt again, and does not install.                   *)
StopsWhenTold == stopped => pc \notin {"prompt", "install"}

(* With a countdown after which the applications are closed automatically,   *)
(* a deployment that is tried again and again gets to the installation,      *)
(* whatever the user does.                                                   *)
GetsInstalled == <>(pc = "install")

(* Why NeverTooOften holds when no two deployments grant different numbers:  *)
(* the registry never says that more are left than have not been used, and   *)
(* a deployment that does not count deferrals would store 0.                 *)
InCall == sessionOpen /\ pc \in {"loop", "prompt", "close"}
HistoryInv ==
    /\ TypeOK
    /\ history.times = None => used = 0
    /\ \A q \in Parameters : q.times # 0 =>
          /\ history.times # None => used + history.times <= q.times
          /\ InCall /\ p.times # 0 => used + deferTimes + 1 <= q.times
    /\ InCall /\ p.times = 0 => deferTimes = 0
    /\ InCall /\ (allowDefer \/ deadline # None) => deferTimes >= 0
=============================================================================
