-------------------------- MODULE ProcessExecution --------------------------
(***************************************************************************)
(* Deployment scripts running installers: Start-ADTProcess, the MSI mutex  *)
(* check of Test-ADTMutexAvailability, Start-ADTMsiProcess, and the end of *)
(* Invoke-AppDeployToolkit.ps1, which turns the outcome of the calls into  *)
(* the exit code of the deployment.                                        *)
(*                                                                         *)
(* Several hosts run on one machine.  They share the mutex by which        *)
(* Windows Installer serialises installations: it exists while a process   *)
(* has a handle to it, and is abandoned when its owner dies under someone  *)
(* else's handle.  Installer processes are external: msiexec takes the     *)
(* mutex, or exits with 1618 when it cannot, and may be killed.            *)
(*                                                                         *)
(* A step is the stretch of a call between two points where it waits for   *)
(* the mutex, for time to pass, or for a process.                          *)
(***************************************************************************)
EXTENDS ExitCodes, FiniteSets

CONSTANTS
    Host,          \* PowerShell hosts that run a deployment
    Installer,     \* installer processes, started by hosts or by others
    ExitCode,      \* what an installer may exit with
    Call,          \* the calls a script may make
    LongestWait,   \* largest timeout WaitOne accepts
    MaxCalls       \* bound: calls of a deployment

Busy == 1618
Special(program) ==
    CASE program = "msiexec" -> {1605}
      [] program = "wusa" -> {-2145124329}
      [] program = "fullfile" -> {17025}
      [] OTHER -> {}

(* via: called by the script, or by Start-ADTMsiProcess on its behalf;      *)
(* ignore: IgnoreExitCodes; timeout: MsiExecWaitTime; onError: ErrorAction. *)
CallType ==
    [via : {"script", "module"}, program : {"msiexec", "wusa", "fullfile", "other"},
     waitForMsi : BOOLEAN, noWait : BOOLEAN, timeout : Nat, ignore : SUBSET Int,
     success : SUBSET Int, reboot : SUBSET Int, onError : {"Stop", "Continue", "Silent"}]

ASSUME PartyAssumption == Host \cap Installer = {}
ASSUME CallAssumption == Call \subseteq CallType
ASSUME CodeAssumption == ExitCode \subseteq Int /\ Busy \in ExitCode
ASSUME BoundAssumption == LongestWait \in Nat /\ MaxCalls \in Nat
ASSUME ListAssumption ==
    /\ Unhandled \notin RebootCodes \cup SuccessCodes
    /\ Busy \in FastRetryCodes

VARIABLES
    \* the machine
    owner,        \* {p}: p owns the MSI mutex
    abandoned,    \* the last owner died without releasing it
    installer,    \* [state, by, msi, code] of each installer process
    \* each host
    pc,
    call,         \* <<c>>: the call in progress
    waited,       \* how long it has waited for the mutex
    free,         \* the check found the installer available
    nozone,       \* SEE_MASK_NOZONECHECKS is set in the host
    exitCode,     \* of the session
    passThru,     \* AllowRebootPassThru
    calls,        \* calls made so far
    \* history
    seen,         \* exit codes that calls of this deployment ended with
    blame         \* {[call, cause, codes]}: the call whose error ended the script

machine == <<owner, abandoned, installer>>
session == <<exitCode, passThru, calls, seen, blame>>
local == <<call, waited, free, nozone>>
vars == <<machine, pc, session, local>>

-----------------------------------------------------------------------------
InstallerType == [state : {"idle", "started", "working", "exited"},
                  by : SUBSET Host, msi : BOOLEAN, code : Int]
Idle == [state |-> "idle", by |-> {}, msi |-> FALSE, code |-> 0]
AtScript == {"closed", "script", "failed"}
PC == AtScript \cup {"waiting", "held", "pause", "start", "running"}

Init ==
    /\ owner = {}
    /\ abandoned = FALSE
    /\ installer = [i \in Installer |-> Idle]
    /\ pc = [h \in Host |-> "closed"]
    /\ call = [h \in Host |-> <<>>]
    /\ waited = [h \in Host |-> 0]
    /\ free = [h \in Host |-> FALSE]
    /\ nozone = [h \in Host |-> FALSE]
    /\ exitCode = [h \in Host |-> 0]
    /\ passThru = [h \in Host |-> FALSE]
    /\ calls = [h \in Host |-> 0]
    /\ seen = [h \in Host |-> {}]
    /\ blame = [h \in Host |-> {}]

Goto(h, label) == pc' = [pc EXCEPT ![h] = label]

\* Handles to the mutex: its owner's, and those of the hosts that wait for it.
MutexExists == owner # {} \/ \E h \in Host : pc[h] = "waiting"

Open(h) ==
    /\ pc[h] = "closed"
    /\ Goto(h, "script")
    /\ exitCode' = [exitCode EXCEPT ![h] = 0]
    /\ \E p \in BOOLEAN : passThru' = [passThru EXCEPT ![h] = p]
    /\ calls' = [calls EXCEPT ![h] = 0]
    /\ seen' = [seen EXCEPT ![h] = {}]
    /\ blame' = [blame EXCEPT ![h] = {}]
    /\ UNCHANGED <<machine, local>>

-----------------------------------------------------------------------------
(* How a call of Start-ADTProcess ends.                                     *)
ForgetCall(h) ==
    /\ call' = [call EXCEPT ![h] = <<>>]
    /\ waited' = [waited EXCEPT ![h] = 0]
    /\ free' = [free EXCEPT ![h] = FALSE]
    /\ nozone' = [nozone EXCEPT ![h] = FALSE]

\* Only a call made by the script itself sets the code of the session.
SetsCode(c, reports) == c.via = "script" /\ reports

\* The error handler throws on, or writes the error and returns.
Raise(h, c, cause, codes) ==
    /\ ForgetCall(h)
    /\ seen' = [seen EXCEPT ![h] = @ \cup codes]
    /\ IF c.onError = "Stop"
       THEN /\ Goto(h, "failed")
            /\ blame' = [blame EXCEPT ![h] = {[call |-> c, cause |-> cause, codes |-> codes]}]
       ELSE Goto(h, "script") /\ UNCHANGED blame

\* Mutant: the catch block leaves the code of the session alone.
Throw_NoCode(h, c, cause, codes) == Raise(h, c, cause, codes) /\ UNCHANGED exitCode

\* The catch block; codes is {} as long as $returnCode is $null.
Throw(h, c, cause, codes) ==
    /\ Raise(h, c, cause, codes)
    /\ exitCode' = [exitCode EXCEPT ![h] =
                      IF SetsCode(c, c.onError # "Silent") /\ codes # {}
                      THEN CHOOSE code \in codes : TRUE ELSE @]

Ignored(c, code) == code \in c.ignore

Succeeded(c, code) ==
    \/ Ignored(c, code)
    \/ code \in c.reboot
    \/ code \in c.success \ Special(c.program)

Classify(h, c, code) ==
    IF Succeeded(c, code)
    THEN /\ ForgetCall(h)
         /\ exitCode' = [exitCode EXCEPT ![h] = IF SetsCode(c, ~Ignored(c, code)) THEN code ELSE @]
         /\ seen' = [seen EXCEPT ![h] = @ \cup {code}]
         /\ Goto(h, "script")
         /\ UNCHANGED blame
    ELSE Throw(h, c, IF code = Busy THEN "busy" ELSE "error", {code})

-----------------------------------------------------------------------------
(* The check of the mutex.  It is skipped for programs that are not msiexec *)
(* unless WaitForMsiExec asks for it.  A mutex that cannot be opened counts *)
(* as taken when access is denied, as available on any other error.         *)
Checks(c) == c.program = "msiexec" \/ c.waitForMsi

Begin(h) ==
    /\ pc[h] = "script"
    /\ calls[h] < MaxCalls
    /\ calls' = [calls EXCEPT ![h] = @ + 1]
    /\ \E c \in Call, opened \in {"refused", "failed", "opened"} :
         /\ call' = [call EXCEPT ![h] = <<c>>]
         /\ Goto(h, IF ~Checks(c) THEN "start"
                    ELSE IF MutexExists /\ opened = "opened" THEN "waiting"
                    ELSE "pause")
         /\ free' = [free EXCEPT ![h] = Checks(c) /\ (~MutexExists \/ opened = "failed")]
    /\ UNCHANGED <<machine, waited, nozone, exitCode, passThru, seen, blame>>

\* The path cannot be resolved.
NotFound(h) ==
    /\ pc[h] = "script"
    /\ calls[h] < MaxCalls
    /\ calls' = [calls EXCEPT ![h] = @ + 1]
    /\ \E c \in Call : Throw(h, c, "error", {})
    /\ UNCHANGED <<machine, passThru>>

\* WaitOne rejects the timeout; so does ReleaseMutex, on a mutex not owned.
WaitRejected(h) ==
    /\ pc[h] = "waiting"
    /\ call[h][1].timeout > LongestWait
    /\ Throw(h, call[h][1], "error", {})
    /\ UNCHANGED <<machine, calls, passThru>>

\* Mutant: an abandoned mutex counts as busy, though the wait has acquired it.
Acquire_AbandonedIsBusy(h) ==
    /\ pc[h] = "waiting"
    /\ call[h][1].timeout <= LongestWait
    /\ owner = {}
    /\ owner' = {h}
    /\ abandoned' = FALSE
    /\ free' = [free EXCEPT ![h] = ~abandoned]
    /\ Goto(h, IF abandoned THEN "pause" ELSE "held")
    /\ UNCHANGED <<installer, call, waited, nozone, session>>

\* WaitOne gives the mutex, abandoned (AbandonedMutexException) or not.
Acquire(h) ==
    /\ pc[h] = "waiting"
    /\ call[h][1].timeout <= LongestWait
    /\ owner = {}
    /\ owner' = {h}
    /\ abandoned' = FALSE
    /\ free' = [free EXCEPT ![h] = TRUE]
    /\ Goto(h, "held")
    /\ UNCHANGED <<installer, call, waited, nozone, session>>

Release(h) ==
    /\ pc[h] = "held"
    /\ owner' = owner \ {h}
    /\ Goto(h, "pause")
    /\ UNCHANGED <<abandoned, installer, local, session>>

\* Mutant: the time left is counted, from nothing.
Tick_CountsDown(h) ==
    /\ pc[h] = "waiting"
    /\ call[h][1].timeout <= LongestWait
    /\ owner # {}
    /\ waited' = [waited EXCEPT ![h] = @ - 1]
    /\ UNCHANGED <<machine, pc, call, free, nozone, session>>

Tick(h) ==
    /\ pc[h] = "waiting"
    /\ waited[h] < call[h][1].timeout
    /\ call[h][1].timeout <= LongestWait
    /\ owner # {}
    /\ waited' = [waited EXCEPT ![h] = @ + 1]
    /\ UNCHANGED <<machine, pc, call, free, nozone, session>>

\* Mutant: the wait has no timeout.
TimedOut_Never(h) == FALSE /\ pc[h] = "waiting" /\ UNCHANGED vars

TimedOut(h) ==
    /\ pc[h] = "waiting"
    /\ waited[h] = call[h][1].timeout
    /\ call[h][1].timeout <= LongestWait
    /\ owner # {}
    /\ Goto(h, "pause")
    /\ UNCHANGED <<machine, local, session>>

\* Mutant: $returnCode is not set before the exception is thrown.
Decide_NoCode(h) ==
    /\ pc[h] = "pause"
    /\ IF free[h]
       THEN Goto(h, "start") /\ UNCHANGED <<local, exitCode, seen, blame>>
       ELSE Throw(h, call[h][1], "busy", {})
    /\ UNCHANGED <<machine, calls, passThru>>

\* A second after the check: go on, or give up with 1618.
Decide(h) ==
    /\ pc[h] = "pause"
    /\ IF free[h]
       THEN Goto(h, "start") /\ UNCHANGED <<local, exitCode, seen, blame>>
       ELSE Throw(h, call[h][1], "busy", {Busy})
    /\ UNCHANGED <<machine, calls, passThru>>

-----------------------------------------------------------------------------
(* Start the process, and wait for it unless NoWait says not to.            *)
StartProcess(h) ==
    /\ pc[h] = "start"
    /\ \E i \in Installer :
         /\ installer[i].state = "idle"
         /\ installer' = [installer EXCEPT ![i] =
              [state |-> "started", by |-> IF call[h][1].noWait THEN {} ELSE {h},
               msi |-> call[h][1].program = "msiexec", code |-> 0]]
    /\ IF call[h][1].noWait
       THEN ForgetCall(h) /\ Goto(h, "script")
       ELSE /\ nozone' = [nozone EXCEPT ![h] = TRUE]
            /\ Goto(h, "running")
            /\ UNCHANGED <<call, waited, free>>
    /\ UNCHANGED <<owner, abandoned, session>>

StartFails(h) ==
    /\ pc[h] = "start"
    /\ Throw(h, call[h][1], "error", {})
    /\ UNCHANGED <<machine, calls, passThru>>

Finished(h) ==
    /\ pc[h] = "running"
    /\ \E i \in Installer :
         /\ installer[i].by = {h}
         /\ installer[i].state = "exited"
         /\ installer' = [installer EXCEPT ![i] = Idle]
         /\ Classify(h, call[h][1], installer[i].code)
    /\ UNCHANGED <<owner, abandoned, calls, passThru>>

-----------------------------------------------------------------------------
(* The main block of Invoke-AppDeployToolkit.ps1: Close-ADTSession, with    *)
(* 60001 when the script has thrown.                                        *)
Close(h) ==
    /\ pc[h] \in {"script", "failed"}
    /\ Goto(h, "closed")
    /\ exitCode' = [exitCode EXCEPT ![h] =
         ClosedAs(CloseWith(@, IF pc[h] = "failed" THEN {Unhandled} ELSE {}), passThru[h])]
    /\ UNCHANGED <<machine, local, passThru, calls, seen, blame>>

\* Whoever ends without releasing the mutex abandons it.
Abandons(p) ==
    /\ owner' = owner \ {p}
    /\ abandoned' = (abandoned \/ (p \in owner /\ \E h \in Host : pc[h] = "waiting"))

\* The host is killed; its process goes on without it.
Killed(h) ==
    /\ pc[h] # "closed"
    /\ Goto(h, "closed")
    /\ ForgetCall(h)
    /\ exitCode' = [exitCode EXCEPT ![h] = Unhandled]
    /\ blame' = [blame EXCEPT ![h] = {}]
    /\ Abandons(h)
    /\ seen' = [seen EXCEPT ![h] = {}]
    /\ installer' = [i \in Installer |->
         IF installer[i].by = {h} /\ installer[i].state = "exited" THEN Idle
         ELSE [installer[i] EXCEPT !.by = @ \ {h}]]
    /\ UNCHANGED <<passThru, calls>>

-----------------------------------------------------------------------------
(* Installer processes.                                                     *)
SomeoneInstalls(i) ==
    /\ installer[i].state = "idle"
    /\ installer' = [installer EXCEPT ![i] =
         [state |-> "started", by |-> {}, msi |-> TRUE, code |-> 0]]
    /\ UNCHANGED <<owner, abandoned, pc, local, session>>

\* Nobody reads the code of a process that was not waited for.
Exit(i, code) ==
    installer' = [installer EXCEPT ![i] =
        IF @.by = {} THEN Idle
        ELSE [state |-> "exited", by |-> @.by, msi |-> @.msi, code |-> code]]

Install(i) ==
    /\ installer[i].state = "started"
    /\ IF installer[i].msi /\ owner # {}
       THEN Exit(i, Busy) /\ UNCHANGED owner
       ELSE /\ installer' = [installer EXCEPT ![i].state = "working"]
            /\ owner' = IF installer[i].msi THEN {i} ELSE owner
    /\ UNCHANGED <<abandoned, pc, local, session>>

Complete(i) ==
    /\ installer[i].state = "working"
    /\ \E code \in ExitCode : Exit(i, code)
    /\ owner' = owner \ {i}
    /\ UNCHANGED <<abandoned, pc, local, session>>

InstallerKilled(i) ==
    /\ installer[i].state = "working"
    /\ Exit(i, 1)
    /\ Abandons(i)
    /\ UNCHANGED <<pc, local, session>>

-----------------------------------------------------------------------------
CallStep(h) ==
    \/ WaitRejected(h) \/ Acquire(h) \/ Release(h) \/ Tick(h) \/ TimedOut(h)
    \/ Decide(h) \/ StartProcess(h) \/ StartFails(h) \/ Finished(h)

HostStep(h) ==
    CallStep(h) \/ Open(h) \/ Begin(h) \/ NotFound(h) \/ Close(h) \/ Killed(h)

InstallerStep(i) ==
    Install(i) \/ Complete(i) \/ InstallerKilled(i)

Next ==
    \/ \E h \in Host : HostStep(h)
    \/ \E i \in Installer : InstallerStep(i) \/ SomeoneInstalls(i)

Spec == Init /\ [][Next]_vars

\* A call goes on as long as it can, and every installer ends some day.
Fairness ==
    /\ \A h \in Host : WF_vars(CallStep(h))
    /\ \A i \in Installer : WF_vars(InstallerStep(i))

FairSpec == Spec /\ Fairness

-----------------------------------------------------------------------------
TypeOK ==
    /\ owner \in SUBSET (Host \cup Installer)
    /\ abandoned \in BOOLEAN
    /\ installer \in [Installer -> InstallerType]
    /\ pc \in [Host -> PC]
    /\ call \in [Host -> {<<>>} \cup {<<c>> : c \in Call}]
    /\ waited \in [Host -> Nat]
    /\ free \in [Host -> BOOLEAN]
    /\ nozone \in [Host -> BOOLEAN]
    /\ exitCode \in [Host -> Int]
    /\ passThru \in [Host -> BOOLEAN]
    /\ calls \in [Host -> Nat]
    /\ seen \in [Host -> SUBSET Int]
    /\ blame \in [Host -> SUBSET [call : Call, cause : {"busy", "error"}, codes : SUBSET Int]]

(* However the check ends - acquired, inherited from a dead owner, timed    *)
(* out, refused - the toolkit gives the MSI mutex back before it goes on:   *)
(* it would otherwise block the very installer it is about to start.  And   *)
(* zone checking is off only while a process runs.                          *)
NothingHeld ==
    \A h \in Host : /\ h \in owner <=> pc[h] = "held"
                    /\ nozone[h] => pc[h] = "running"

(* A deployment whose script ends by the error of an installer it started   *)
(* itself reports that installer's code: neither the 60001 of the final     *)
(* Close-ADTSession nor an earlier call's code replaces it.                 *)
FailureReported ==
    \A h \in Host : \A b \in blame[h] : \A c \in b.codes :
        pc[h] = "closed" /\ b.call.via = "script" /\ ~Successful(c)
            => exitCode[h] = IF c = 0 THEN Unhandled ELSE c

(* Whether the toolkit's own check times out or msiexec loses the race for  *)
(* the mutex after it, the deployment asks for a fast retry.                *)
BusyIsRetried ==
    \A h \in Host : \A b \in blame[h] :
        pc[h] = "closed" /\ b.call.via = "script" /\ b.cause = "busy"
            => Status(exitCode[h]) = "FastRetry"

\* How far a call is from its end: the points it still passes, and while it
\* waits for the mutex the time that is left.
Distance(label) ==
    CASE label = "waiting" -> 5
      [] label = "held" -> 4
      [] label = "pause" -> 3
      [] label = "start" -> 2
      [] label = "running" -> 1
      [] OTHER -> 0

Nearer(h) ==
    \/ Distance(pc'[h]) < Distance(pc[h])
    \/ /\ UNCHANGED <<pc[h], call[h]>>
       /\ waited[h] < waited'[h]
       /\ waited'[h] <= call[h][1].timeout

(* Every step of a call of Start-ADTProcess brings it nearer to its end, and *)
(* no other host or installer takes it back: who takes the mutex away again *)
(* and again cannot make the wait begin anew.                               *)
CallsAdvance ==
    [][\A h \in Host : pc[h] \notin AtScript
         => /\ CallStep(h) => Nearer(h)
            /\ Nearer(h) \/ UNCHANGED <<pc[h], call[h], waited[h]>>]_vars

(* Every call returns or throws, however often other installers take the    *)
(* mutex and whoever dies holding it.                                       *)
CallReturns == \A h \in Host : pc[h] \notin AtScript ~> pc[h] \in AtScript

(* "Allows the 3010 return code (requires restart) to be passed back to the *)
(* parent process (e.g. SCCM) if detected from an installation."            *)
RebootReported ==
    \A h \in Host : pc[h] = "closed" /\ passThru[h] /\ blame[h] = {} /\ 3010 \in seen[h]
        => exitCode[h] = 3010

(* Close-ADTSession "updates the session's exit code if provided": a        *)
(* deployment whose script threw, which passes 60001, is not a success.     *)
FailureKept ==
    \A h \in Host : pc[h] = "closed" /\ blame[h] # {} => ~Successful(exitCode[h])
=============================================================================
