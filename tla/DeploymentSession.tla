------------------------- MODULE DeploymentSession -------------------------
(***************************************************************************)
(* The deployment sessions of one PowerShell host: Open-ADTSession, the    *)
(* DeploymentSession constructor, the session callbacks, Close-ADTSession, *)
(* DeploymentSession.Close and Exit-ADTInvocation, over the state the      *)
(* module keeps in $Script:ADT and the state of the machine they change.   *)
(*                                                                         *)
(* The code is single threaded.  A step of this module is the stretch of   *)
(* one call between two points where control leaves it: a callback, an     *)
(* external tool that may fail, or the return to the deployment script.    *)
(* While callbacks run (pc is one of CallbackPhases) the script operations *)
(* are available to them as well; callbacks that open or close sessions of *)
(* their own are not modelled.                                             *)
(*                                                                         *)
(* The host may be killed anywhere and started again; the module's state   *)
(* is then lost, the machine's is not.                                     *)
(***************************************************************************)
EXTENDS ExitCodes, SequencesExt

CONSTANTS
    App,              \* install names, the key of the deferral history
    Code,             \* exit codes the model tells apart
    Wim,              \* WIM images
    Drive,            \* letters subst may use
    Callback,         \* commands registered as session callbacks
    TerminalServer,   \* the TerminalServerMode values a caller may pass
    RebootPassThru,   \* the AllowRebootPassThru values a caller may pass
    ConsoleHost,      \* $Host.Name is 'ConsoleHost'
    MaxDepth          \* bound: sessions open at once

ASSUME CodeAssumption ==
    /\ Code \subseteq Int
    /\ {0, OpenFailure, Unhandled} \subseteq Code

ASSUME ParameterAssumption ==
    /\ TerminalServer \subseteq BOOLEAN
    /\ RebootPassThru \subseteq BOOLEAN
    /\ ConsoleHost \in BOOLEAN
    /\ MaxDepth \in Nat

VARIABLES
    \* $Script:ADT
    initialized,      \* Initialized
    sessions,         \* Sessions, the active session last
    lastExitCode,     \* LastExitCode
    tsFlag,           \* TerminalServerMode
    callbacks,        \* Callbacks
    \* the call in progress
    pc,
    building,         \* the session its constructor has not yet added: <<>> or <<s>>
    todo,             \* callbacks still to be invoked
    call,             \* locals of the call
    \* the host
    exitStatus,
    \* the machine
    tsInstall,        \* "change user /install" is in force
    mounted,          \* WIM images with a mount point
    substed,          \* letters with a substitution
    deferHistory,     \* install names with a deferral key in the registry
    \* history
    stray             \* [wims, drives] that a failing step or a lost session left behind

module == <<initialized, sessions, lastExitCode, tsFlag, callbacks>>
machine == <<tsInstall, mounted, substed, deferHistory>>
vars == <<module, pc, building, todo, call, exitStatus, machine, stray>>

-----------------------------------------------------------------------------
Session == [app : App, exitCode : Code, noExit : BOOLEAN, rebootPassThru : BOOLEAN,
            ts : BOOLEAN, wims : SUBSET Wim, drive : SUBSET Drive]

Phase == {"Starting", "Opening", "Closing", "Finishing"}
CallbackPhases == {"openCallbacks", "closeCallbacks"}
PC == {"script", "initialize", "construct", "finalize", "ctorFailed",
       "close", "exit", "ended"} \cup CallbackPhases

\* first, noExit: locals of Open-ADTSession; force, cbError: of
\* Close-ADTSession; code: the exit code handed to Exit-ADTInvocation.
Call == [first : BOOLEAN, noExit : BOOLEAN, force : BOOLEAN, cbError : BOOLEAN, code : Code]
NoCall == [first |-> FALSE, noExit |-> FALSE, force |-> FALSE, cbError |-> FALSE, code |-> 0]

Running == [how |-> "running", code |-> 0]

Init ==
    /\ initialized = FALSE
    /\ sessions = <<>>
    /\ lastExitCode = 0
    /\ tsFlag = FALSE
    /\ callbacks = [p \in Phase |-> <<>>]
    /\ pc = "script"
    /\ building = <<>>
    /\ todo = <<>>
    /\ call = NoCall
    /\ exitStatus = Running
    /\ tsInstall = FALSE
    /\ mounted = {}
    /\ substed = {}
    /\ deferHistory = {}
    /\ stray = [wims |-> {}, drives |-> {}]

\* The active session is the last of the list; only it is ever updated.
Active == sessions # <<>>
UpdateTop(s) == [sessions EXCEPT ![Len(sessions)] = s]

\* What is still owed by sessions that will never be closed.
Abandon(ss) ==
    [wims |-> stray.wims \cup UNION {ss[i].wims \cap mounted : i \in DOMAIN ss},
     drives |-> stray.drives \cup UNION {ss[i].drive : i \in DOMAIN ss}]

-----------------------------------------------------------------------------
(* Initialize-ADTModule resets the module; it refuses to run with an active *)
(* session, and leaves everything alone when reading the config fails.      *)
ResetModule ==
    /\ sessions' = <<>>
    /\ tsFlag' = FALSE
    /\ lastExitCode' = 0
    /\ initialized' = TRUE

InitializeADTModule ==
    /\ pc = "script"
    /\ ~Active
    /\ ResetModule
    /\ UNCHANGED <<callbacks, pc, building, todo, call, exitStatus, machine, stray>>

(* Open-ADTSession.  Called from the console or by AppDeployToolkitMain.ps1 *)
(* it drops the sessions that are open and asks for a new initialisation.   *)
OpenBegin(fresh, noExit) ==
    /\ pc = "script"
    /\ fresh \/ Len(sessions) < MaxDepth
    /\ sessions' = IF fresh THEN <<>> ELSE sessions
    /\ initialized' = (initialized /\ ~fresh)
    /\ stray' = IF fresh THEN Abandon(sessions) ELSE stray
    /\ call' = [NoCall EXCEPT !.first = (sessions' = <<>>), !.noExit = noExit]
    /\ pc' = IF sessions' = <<>> /\ ~initialized' THEN "initialize" ELSE "construct"
    /\ UNCHANGED <<lastExitCode, tsFlag, callbacks, building, todo, exitStatus, machine>>

OpenInitialize ==
    /\ pc = "initialize"
    /\ \/ /\ ResetModule
          /\ pc' = "construct"
          /\ UNCHANGED call
       \/ /\ pc' = "exit"
          /\ call' = [call EXCEPT !.code = OpenFailure]
          /\ UNCHANGED <<initialized, sessions, lastExitCode, tsFlag>>
    /\ UNCHANGED <<callbacks, building, todo, exitStatus, machine, stray>>

-----------------------------------------------------------------------------
(* The constructor.  Mount-ADTWimFile records the image with the session    *)
(* that is active, which is the enclosing one; the constructor records it   *)
(* with the new session too.                                                *)
RecordMount(w) ==
    IF Active
    THEN UpdateTop([Last(sessions) EXCEPT !.wims = @ \cup {w}])
    ELSE sessions

\* Mutant: the constructor relies on Mount-ADTWimFile to record the image.
DetectWim_NotRecorded(s) ==
    \/ /\ building' = <<s>>
       /\ pc' \in {"finalize", "ctorFailed"}
       /\ UNCHANGED <<sessions, mounted, substed>>
    \/ \E w \in Wim :
         /\ mounted' = mounted \cup {w}
         /\ sessions' = RecordMount(w)
         /\ building' = <<s>>
         /\ pc' \in {"finalize", "ctorFailed"}
         /\ UNCHANGED substed

\* Mutant: the last letter of the list is taken without asking whether it is free.
DetectWim_TakenLetter(s) ==
    \E w \in Wim, d \in Drive :
        /\ mounted' = mounted \cup {w}
        /\ sessions' = RecordMount(w)
        /\ building' = <<[s EXCEPT !.wims = {w}, !.drive = {d}]>>
        /\ substed' = substed \cup {d}
        /\ pc' \in {"finalize", "ctorFailed"}

\* Zero-config WIM: mount the image, then substitute the first free letter.
DetectWim(s) ==
    \/ /\ building' = <<s>>
       /\ pc' \in {"finalize", "ctorFailed"}
       /\ UNCHANGED <<sessions, mounted, substed>>
    \/ \E w \in Wim :
         /\ mounted' = mounted \cup {w}
         /\ sessions' = RecordMount(w)
         /\ \/ \E d \in Drive \ substed :
                 /\ building' = <<[s EXCEPT !.wims = {w}, !.drive = {d}]>>
                 /\ substed' = substed \cup {d}
                 /\ pc' \in {"finalize", "ctorFailed"}
            \/ /\ building' = <<[s EXCEPT !.wims = {w}]>>
               /\ UNCHANGED substed
               /\ \/ pc' = "ctorFailed"
                  \/ Drive \subseteq substed /\ pc' = "finalize"

Construct(a, rpt, ts) ==
    /\ pc = "construct"
    /\ DetectWim([app |-> a, exitCode |-> 0, noExit |-> call.noExit, rebootPassThru |-> rpt,
                  ts |-> ts, wims |-> {}, drive |-> {}])
    /\ UNCHANGED <<initialized, lastExitCode, tsFlag, callbacks, todo, call, exitStatus,
                   tsInstall, deferHistory, stray>>

\* Mutant: the flag is set before change.exe is asked.
EnableTerminalServer_FlagFirst ==
    /\ ~tsFlag
    /\ tsFlag' = TRUE
    /\ tsInstall' \in {TRUE, tsInstall}

\* Enable- and Disable-ADTTerminalServerInstallMode: nothing to do when the
\* flag says so already, and a failing change.exe is only logged.
EnableTerminalServer ==
    \/ /\ ~tsFlag
       /\ tsFlag' = TRUE
       /\ tsInstall' = TRUE
    \/ UNCHANGED <<tsFlag, tsInstall>>

DisableTerminalServer ==
    \/ /\ tsFlag
       /\ tsFlag' = FALSE
       /\ tsInstall' = FALSE
    \/ UNCHANGED <<tsFlag, tsInstall>>

\* The end of the constructor: only now is the session listed.
Finalize ==
    /\ pc = "finalize"
    /\ IF building[1].ts THEN EnableTerminalServer ELSE UNCHANGED <<tsFlag, tsInstall>>
    /\ sessions' = sessions \o building
    /\ building' = <<>>
    /\ todo' = (IF call.first THEN callbacks["Starting"] ELSE <<>>) \o callbacks["Opening"]
    /\ pc' = "openCallbacks"
    /\ UNCHANGED <<initialized, lastExitCode, callbacks, call, exitStatus, mounted, substed,
                   deferHistory, stray>>

\* The constructor's catch: exit code 60008, then Close of the new session.
ConstructorFailed ==
    /\ pc = "ctorFailed"
    /\ building' = <<[building[1] EXCEPT !.exitCode = OpenFailure]>>
    /\ pc' = "close"
    /\ UNCHANGED <<module, todo, call, exitStatus, machine, stray>>

-----------------------------------------------------------------------------
\* Mutant: the exit code of the session is cut to a byte.
WithExitCode_Byte(s, given) == [s EXCEPT !.exitCode = CloseWith(@, given) % 256]

(* Close-ADTSession.                                                        *)
WithExitCode(s, given) == [s EXCEPT !.exitCode = CloseWith(@, given)]

StartClosing(given, force) ==
    /\ sessions' = UpdateTop(WithExitCode(Last(sessions), given))
    /\ todo' = callbacks["Closing"]
                 \o (IF Len(sessions) = 1 THEN callbacks["Finishing"] ELSE <<>>)
    /\ call' = [call EXCEPT !.force = force, !.cbError = FALSE]
    /\ pc' = "closeCallbacks"
    /\ UNCHANGED <<initialized, lastExitCode, tsFlag, callbacks, building, exitStatus,
                   machine, stray>>

CloseADTSession(given, force) ==
    /\ pc = "script"
    /\ Active
    /\ StartClosing(given, force)

(* Callbacks.  While closing, one that throws is noted and the others still *)
(* run.  The list was copied before the first ran.                          *)
InvokeCallback ==
    /\ pc \in CallbackPhases
    /\ todo # <<>>
    /\ todo' = Tail(todo)
    /\ \/ UNCHANGED call
       \/ pc = "closeCallbacks" /\ call' = [call EXCEPT !.cbError = TRUE]
    /\ UNCHANGED <<module, pc, building, exitStatus, machine, stray>>

(* A callback that throws while opening, or a failing step after them, ends *)
(* the opening: its "finally" closes the new session with 60008.            *)
OpenFails ==
    /\ pc = "openCallbacks"
    /\ StartClosing({OpenFailure}, FALSE)

CallbacksDone ==
    /\ pc \in CallbackPhases
    /\ todo = <<>>
    /\ pc' = IF pc = "openCallbacks" THEN "script" ELSE "close"
    /\ call' = IF pc = "openCallbacks" THEN NoCall ELSE call
    /\ UNCHANGED <<module, building, todo, exitStatus, machine, stray>>

-----------------------------------------------------------------------------
(* DeploymentSession.Close.                                                 *)
Completed(s) == Successful(s.exitCode)

FinalCode(s) == ClosedAs(s.exitCode, s.rebootPassThru)

Target == IF building # <<>> THEN building[1] ELSE Last(sessions)

\* The "finally" of Close: the session leaves the list however Close ends.
\* A session whose constructor failed was never in it.
RemoveTarget ==
    /\ sessions' = IF building # <<>> THEN sessions ELSE Front(sessions)
    /\ building' = <<>>

\* Mutant: Close-ADTSession does not look whether sessions are left.
ReturnFromClose_AlwaysExits(code) ==
    /\ pc' = "exit"
    /\ call' = [call EXCEPT !.code = IF building # <<>> THEN OpenFailure ELSE code]

\* The caller of Close: the constructor's catch rethrows and Open-ADTSession
\* exits with 60008; Close-ADTSession exits after the last session, with 60001
\* when Close threw.
ReturnFromClose(code) ==
    \/ /\ building # <<>>
       /\ pc' = "exit"
       /\ call' = [call EXCEPT !.code = OpenFailure, !.force = FALSE]
    \/ /\ building = <<>>
       /\ Len(sessions) = 1
       /\ pc' = "exit"
       /\ call' = [call EXCEPT !.code = code, !.noExit = Target.noExit,
                               !.force = @ \/ (ConsoleHost /\ call.cbError)]
    \/ /\ building = <<>>
       /\ Len(sessions) > 1
       /\ pc' = "script"
       /\ call' = NoCall

\* Mutant: every close overwrites the code, success included.
RecordExitCode_Overwrites == lastExitCode' = FinalCode(Target)

\* LastExitCode is updated before anything is released.
RecordExitCode ==
    lastExitCode' = IF FinalCode(Target) # 0 THEN FinalCode(Target) ELSE lastExitCode

CloseTerminalServer ==
    IF Target.ts THEN DisableTerminalServer ELSE UNCHANGED <<tsFlag, tsInstall>>

ResetDeferHistory ==
    deferHistory' = IF Completed(Target) THEN deferHistory \ {Target.app} ELSE deferHistory

\* Close runs to its end.  A WIM that cannot be dismounted is only logged.
CloseSucceeds ==
    /\ CloseTerminalServer
    /\ ResetDeferHistory
    /\ RecordExitCode
    /\ substed' = substed \ Target.drive
    /\ \E stuck \in SUBSET (Target.wims \cap mounted) :
         /\ mounted' = (mounted \ Target.wims) \cup stuck
         /\ stray' = [stray EXCEPT !.wims = (@ \ Target.wims) \cup stuck]
    /\ RemoveTarget
    /\ ReturnFromClose(lastExitCode')

\* The registry refuses to remove the deferral key.
CloseThrowsAtHistory ==
    /\ Completed(Target)
    /\ Target.app \in deferHistory
    /\ CloseTerminalServer
    /\ stray' = Abandon(<<Target>>)
    /\ RemoveTarget
    /\ ReturnFromClose(Unhandled)
    /\ UNCHANGED <<lastExitCode, mounted, substed, deferHistory>>

\* subst /D fails: the WIM images are not dismounted.
CloseThrowsAtSubst ==
    /\ Target.drive # {}
    /\ CloseTerminalServer
    /\ ResetDeferHistory
    /\ RecordExitCode
    /\ stray' = Abandon(<<Target>>)
    /\ RemoveTarget
    /\ ReturnFromClose(Unhandled)
    /\ UNCHANGED <<mounted, substed>>

Close ==
    /\ pc = "close"
    /\ CloseSucceeds \/ CloseThrowsAtHistory \/ CloseThrowsAtSubst
    /\ UNCHANGED <<initialized, callbacks, todo, exitStatus>>

-----------------------------------------------------------------------------
\* Mutant: returning to the shell leaves the module flagged as initialised.
ExitADTInvocation_StaysInitialized ==
    /\ pc = "exit"
    /\ call.noExit /\ ~call.force
    /\ pc' = "script"
    /\ exitStatus' = [how |-> "returned", code |-> call.code]
    /\ call' = NoCall
    /\ UNCHANGED <<module, building, todo, machine, stray>>

(* Exit-ADTInvocation: give control back to the shell, or end the host.     *)
ExitADTInvocation ==
    /\ pc = "exit"
    /\ initialized' = FALSE
    /\ IF call.noExit /\ ~call.force
       THEN /\ pc' = "script"
            /\ exitStatus' = [how |-> "returned", code |-> call.code]
            /\ UNCHANGED stray
       ELSE /\ pc' = "ended"
            /\ exitStatus' = [how |-> "exited", code |-> call.code]
            /\ stray' = Abandon(sessions)
    /\ call' = NoCall
    /\ UNCHANGED <<sessions, lastExitCode, tsFlag, callbacks, building, todo, machine>>

-----------------------------------------------------------------------------
(* Operations of the deployment script, or of a callback.                   *)
InScript == pc \in {"script"} \cup CallbackPhases

SetExitCode(c) ==
    /\ InScript
    /\ Active
    /\ sessions' = UpdateTop([Last(sessions) EXCEPT !.exitCode = c])
    /\ UNCHANGED <<initialized, lastExitCode, tsFlag, callbacks, pc, building, todo, call,
                   exitStatus, machine, stray>>

MountADTWimFile(w) ==
    /\ InScript
    /\ mounted' = mounted \cup {w}
    /\ sessions' = RecordMount(w)
    /\ stray' = IF Active THEN stray ELSE [stray EXCEPT !.wims = @ \cup {w}]
    /\ UNCHANGED <<initialized, lastExitCode, tsFlag, callbacks, pc, building, todo, call,
                   exitStatus, tsInstall, substed, deferHistory>>

DismountADTWimFile(w) ==
    /\ InScript
    /\ mounted' = mounted \ {w}
    /\ stray' = [stray EXCEPT !.wims = @ \ {w}]
    /\ UNCHANGED <<module, pc, building, todo, call, exitStatus, tsInstall, substed,
                   deferHistory>>

TerminalServerInstallMode ==
    /\ InScript
    /\ TRUE \in TerminalServer
    /\ EnableTerminalServer \/ DisableTerminalServer
    /\ UNCHANGED <<initialized, sessions, lastExitCode, callbacks, pc, building, todo, call,
                   exitStatus, mounted, substed, deferHistory, stray>>

SetADTDeferHistory ==
    /\ InScript
    /\ Active
    /\ deferHistory' = deferHistory \cup {Last(sessions).app}
    /\ UNCHANGED <<module, pc, building, todo, call, exitStatus, tsInstall, mounted, substed,
                   stray>>

\* Mutant: the loop over the callbacks reads the live list, not a copy.
AddCallback_LiveList(p, cb) ==
    /\ InScript
    /\ ~Contains(callbacks[p], cb)
    /\ callbacks' = [callbacks EXCEPT ![p] = Append(@, cb)]
    /\ todo' = IF pc = "script" THEN todo ELSE Append(todo, cb)
    /\ UNCHANGED <<initialized, sessions, lastExitCode, tsFlag, pc, building, call,
                   exitStatus, machine, stray>>

\* Add ignores a command that is registered already; Remove drops the first.
AddCallback(p, cb) ==
    /\ InScript
    /\ ~Contains(callbacks[p], cb)
    /\ callbacks' = [callbacks EXCEPT ![p] = Append(@, cb)]
    /\ UNCHANGED <<initialized, sessions, lastExitCode, tsFlag, pc, building, todo, call,
                   exitStatus, machine, stray>>

RemoveCallback(p, cb) ==
    /\ InScript
    /\ \E i \in DOMAIN callbacks[p] :
         /\ callbacks[p][i] = cb
         /\ callbacks' = [callbacks EXCEPT ![p] = RemoveAt(@, i)]
    /\ UNCHANGED <<initialized, sessions, lastExitCode, tsFlag, pc, building, todo, call,
                   exitStatus, machine, stray>>

-----------------------------------------------------------------------------
(* The environment: the host is killed, a new one imports the module.       *)
Killed ==
    /\ pc # "ended"
    /\ pc' = "ended"
    /\ exitStatus' = [how |-> "killed", code |-> 0]
    /\ stray' = Abandon(sessions \o building)
    /\ building' = <<>>
    /\ UNCHANGED <<module, todo, call, machine>>

NewHost ==
    /\ pc = "ended"
    /\ initialized' = FALSE
    /\ sessions' = <<>>
    /\ lastExitCode' = 0
    /\ tsFlag' = FALSE
    /\ callbacks' = [p \in Phase |-> <<>>]
    /\ pc' = "script"
    /\ todo' = <<>>
    /\ call' = NoCall
    /\ exitStatus' = Running
    /\ UNCHANGED <<building, machine, stray>>

Given == {{}} \cup {{c} : c \in Code}

ScriptOperation ==
    \/ InitializeADTModule
    \/ \E fresh, noExit \in BOOLEAN : OpenBegin(fresh, noExit)
    \/ \E given \in Given, force \in BOOLEAN : CloseADTSession(given, force)
    \/ \E c \in Code : SetExitCode(c)
    \/ \E w \in Wim : MountADTWimFile(w)
    \/ \E w \in Wim : DismountADTWimFile(w)
    \/ TerminalServerInstallMode
    \/ SetADTDeferHistory
    \/ \E p \in Phase, cb \in Callback : AddCallback(p, cb)
    \/ \E p \in Phase, cb \in Callback : RemoveCallback(p, cb)

\* The steps that carry a call of Open- or Close-ADTSession to its end.
CallStep ==
    \/ OpenInitialize
    \/ \E a \in App, rpt \in RebootPassThru, ts \in TerminalServer : Construct(a, rpt, ts)
    \/ Finalize
    \/ ConstructorFailed
    \/ InvokeCallback
    \/ OpenFails
    \/ CallbacksDone
    \/ Close
    \/ ExitADTInvocation

Next == ScriptOperation \/ CallStep \/ Killed \/ NewHost

Spec == Init /\ [][Next]_vars

\* The host runs the statements of a call one after the other: a call that can
\* take its next step takes it, provided its callbacks and tools return.
FairSpec == Spec /\ WF_vars(CallStep)

-----------------------------------------------------------------------------
TypeOK ==
    /\ initialized \in BOOLEAN
    /\ sessions \in Seq(Session)
    /\ lastExitCode \in Code
    /\ tsFlag \in BOOLEAN
    /\ callbacks \in [Phase -> Seq(Callback)]
    /\ pc \in PC
    /\ building \in Seq(Session)
    /\ todo \in Seq(Callback)
    /\ call \in Call
    /\ exitStatus \in [how : {"running", "returned", "exited", "killed"}, code : Code]
    /\ tsInstall \in BOOLEAN
    /\ mounted \subseteq Wim
    /\ substed \subseteq Drive
    /\ deferHistory \subseteq App
    /\ stray \in [wims : SUBSET Wim, drives : SUBSET Drive]

\* Sessions that hold resources: the listed ones and the one being built.
Holding == sessions \o building

\* Where control can be when a session is under construction, or when the
\* active session is being opened or closed.
ControlOK ==
    /\ Len(building) <= 1
    /\ pc \in {"finalize", "ctorFailed"} => building # <<>>
    /\ pc \notin {"finalize", "ctorFailed", "close"} => building = <<>>
    /\ pc \in CallbackPhases => Active
    /\ pc = "close" => Active \/ building # <<>>
    /\ pc = "initialize" => ~Active

(* Every deployment starts from a clean slate: with no session open and the  *)
(* module initialised, so that the next Open-ADTSession will not initialise  *)
(* it again, no exit code of an earlier deployment is left in LastExitCode.  *)
FreshVerdict ==
    pc \in {"script", "construct"} /\ initialized /\ ~Active => lastExitCode = 0

(* No mount point or drive substitution is lost track of: each belongs to a  *)
(* session that will release it on Close, or is the remains of a failing     *)
(* tool, an abandoned session or a mount made outside any session.           *)
NothingLost ==
    /\ mounted \subseteq stray.wims \cup UNION {Holding[i].wims : i \in DOMAIN Holding}
    /\ substed \subseteq stray.drives \cup UNION {Holding[i].drive : i \in DOMAIN Holding}

(* Nested zero-config sessions never share a letter, and the letter a        *)
(* session uses as its DirFiles stays substituted until that session closes. *)
DriveExclusive ==
    \A i, j \in DOMAIN Holding :
        /\ Holding[i].drive \subseteq substed
        /\ i # j => Holding[i].drive \cap Holding[j].drive = {}

(* The module never believes the server to be in install mode when it is    *)
(* not: the next Enable-ADTTerminalServerInstallMode would do nothing.      *)
FlagMeansInstall == tsFlag => tsInstall

(* The sessions keep the promise of DeploymentVerdict.  A host that has      *)
(* ended holds no sessions any more, and LastExitCode means nothing while   *)
(* none is open: it is reset before the next deployment reads it.           *)
Open == IF pc = "ended" THEN <<>> ELSE sessions
Verdict == INSTANCE DeploymentVerdict WITH
    codes <- [i \in DOMAIN Open |-> Open[i].exitCode],
    verdict <- IF Open = <<>> THEN 0 ELSE lastExitCode,
    due <- IF pc = "exit" THEN {call.code} ELSE {},
    report <- exitStatus
KeepsVerdict == Verdict!Spec

(* While sessions are open no later success hides that one of them failed.  *)
FailureSticks == Verdict!VerdictSticks

(* The host only ever ends itself under an open session because a further   *)
(* session failed to open, and then it says so: 60008.                      *)
ExitUnderOpenSession ==
    exitStatus.how = "exited" /\ Active => exitStatus.code = OpenFailure

(* Why the host may end itself under an open session; with the type         *)
(* invariant, the control invariant and the properties above it is preserved *)
(* by every step.                                                           *)
ExitReason ==
    /\ pc = "exit" /\ Active => call.code = OpenFailure
    /\ exitStatus.how = "exited" => pc = "ended"

Inv ==
    /\ TypeOK
    /\ ControlOK
    /\ FreshVerdict
    /\ FlagMeansInstall
    /\ ExitReason
    /\ ExitUnderOpenSession

(* What the frontend says of TerminalServerMode: the installation of a      *)
(* session opened with it runs in user install mode.  A close takes the     *)
(* server out of install mode only when no such session is left open.       *)
TerminalServerHeld ==
    [][pc = "close" /\ tsInstall /\ ~tsInstall'
         => \A i \in DOMAIN sessions' : ~sessions'[i].ts]_vars

\* How far a call is from its end: the points it still passes, and at each
\* the callbacks it still has to run.
Distance(label) ==
    CASE label = "initialize" -> 7
      [] label = "construct" -> 6
      [] label \in {"finalize", "ctorFailed"} -> 5
      [] label = "openCallbacks" -> 4
      [] label = "closeCallbacks" -> 3
      [] label = "close" -> 2
      [] label = "exit" -> 1
      [] OTHER -> 0

Nearer ==
    \/ Distance(pc') < Distance(pc)
    \/ pc' = pc /\ Len(todo') < Len(todo)

(* Every step of a call of Open- or Close-ADTSession brings it nearer to its *)
(* end, a step that fails as well as one that succeeds, and nothing that    *)
(* happens between two of them - a callback that registers callbacks above  *)
(* all - takes it back: the loops run over copies of the lists.             *)
CallsAdvance ==
    [][pc \notin {"script", "ended"}
         => /\ CallStep => Nearer
            /\ Nearer \/ UNCHANGED <<pc, todo>>]_vars

(* A call of Open- or Close-ADTSession returns to the script, or the host   *)
(* ends, whatever its callbacks do to the list of callbacks meanwhile.      *)
CallReturns == pc \notin {"script", "ended"} ~> pc \in {"script", "ended"}
=============================================================================
