------------------------ MODULE InstallationProgress ------------------------
(***************************************************************************)
(* The progress dialog of a host: Show- and Close-ADTInstallationProgress  *)
(* in both dialog styles, the prompts that share its windows, and the two  *)
(* places that close it for a deployment, the Finishing callback and       *)
(* Exit-ADTInvocation.                                                     *)
(*                                                                         *)
(* The fluent window lives on the thread of AdtApplication, which executes *)
(* what the host passes to Dispatcher.Invoke; it knows one window, the     *)
(* current one.  The classic window lives on a runspace of its own, which  *)
(* tells the host of itself through a synchronised table (SyncHash).  The  *)
(* host's calls are sequential; a step is the stretch between two points   *)
(* where it depends on the other thread or on the user.                    *)
(***************************************************************************)
EXTENDS Naturals, Sequences

CONSTANTS
    MaxDepth,      \* bound: nested sessions
    MaxStrays      \* bound: windows the host has lost track of

ASSUME BoundAssumption == MaxDepth \in Nat /\ MaxStrays \in Nat

VARIABLES
    style,         \* DialogStyle
    sessions,      \* deploy modes of the open sessions, the active one last
    closeCallback, \* Close-ADTInstallationProgress is a Finishing callback
    running,       \* $Dialogs.<style>.ProgressWindow.Running
    \* fluent
    current,       \* what _currentWindow refers to
    visible,       \* a progress window it refers to is on the screen
    strays,        \* progress windows on the screen it does not refer to
    \* classic
    xamlRead,      \* XamlCode, a StringReader, is at its end
    thread,        \* the script in the dialog's runspace
    syncHash,      \* keys of SyncHash
    \* the call in progress
    pc, after,     \* after: where the host is when Close- returns
    wasOpen,       \* $progressOpen of Show-
    \* history
    failed,        \* the last Show- ended with an error
    refused,       \* something outside the toolkit has failed
    userClosed,    \* the user has closed the current progress window
    bare           \* a prompt has been shown without a session

call == <<pc, after, wasOpen, failed, refused>>
fluent == <<current, visible, strays, userClosed, bare>>
classic == <<xamlRead, thread, syncHash>>
vars == <<style, sessions, closeCallback, running, call, fluent, classic>>

Mode == {"Interactive", "NonInteractive", "Silent"}
Top == sessions[Len(sessions)]
IsSilent == sessions # <<>> /\ Top = "Silent"

\* The thread's script has its end, and Invocation.IsCompleted with it.
IsCompleted == thread \in {"completed", "failed"}
Alive == thread # "none" /\ ~IsCompleted

\* A progress window the host knows of is on the screen, or on its way there.
OnScreen ==
    IF style = "Fluent" THEN current = "progress" /\ visible
                        ELSE thread \in {"starting", "loaded", "shown"}

TypeOK ==
    /\ style \in {"Classic", "Fluent"}
    /\ sessions \in Seq(Mode)
    /\ closeCallback \in BOOLEAN
    /\ running \in BOOLEAN
    /\ current \in {"none", "progress", "dialog"}
    /\ visible \in BOOLEAN
    /\ strays \in 0..MaxStrays
    /\ xamlRead \in BOOLEAN
    /\ thread \in {"none", "starting", "loaded", "shown", "ended", "failing", "completed", "failed"}
    /\ syncHash \subseteq {"Window", "Error"}
    /\ pc \in {"idle", "show", "wait", "register", "close", "closing", "ending", "endInvoke",
               "dialog", "pop", "exit", "leave"}
    /\ after \in {"idle", "dialog", "pop", "leave"}
    /\ wasOpen \in BOOLEAN
    /\ failed \in BOOLEAN
    /\ refused \in BOOLEAN
    /\ userClosed \in BOOLEAN
    /\ bare \in BOOLEAN

Init ==
    /\ style \in {"Classic", "Fluent"}
    /\ sessions = <<>>
    /\ closeCallback = FALSE
    /\ running = FALSE
    /\ current = "none"
    /\ visible = FALSE
    /\ strays = 0
    /\ xamlRead = FALSE
    /\ thread = "none"
    /\ syncHash = {}
    /\ pc = "idle"
    /\ after = "idle"
    /\ wasOpen = FALSE
    /\ failed = FALSE
    /\ refused = FALSE
    /\ userClosed = FALSE
    /\ bare = FALSE

Goto(from, to) == pc = from /\ pc' = to

-----------------------------------------------------------------------------
(* Show-ADTInstallationProgress.                                            *)
Show ==
    /\ Goto("idle", "show")
    /\ ~IsSilent
    /\ strays < MaxStrays
    /\ wasOpen' = running
    /\ failed' = FALSE
    /\ UNCHANGED <<style, sessions, closeCallback, running, after, refused, fluent, classic>>

\* The catch and finally blocks: the error is passed on once the progress
\* dialog has been closed.
ShowFails(from, because) ==
    /\ Goto(from, "close")
    /\ after' = "idle"
    /\ failed' = TRUE
    /\ refused' = (refused \/ because)
    /\ UNCHANGED <<style, sessions, closeCallback, wasOpen>>

\* Another window becomes the current one.
Displace == strays' = IF current = "progress" /\ visible THEN strays + 1 ELSE strays

FluentOpens ==
    /\ style = "Fluent" /\ ~running
    /\ Goto("show", "wait")
    /\ Displace
    /\ current' = "progress"
    /\ visible' = TRUE
    /\ userClosed' = FALSE
    /\ UNCHANGED <<style, sessions, closeCallback, running, after, wasOpen, failed, refused, bare, classic>>

\* The window cannot be made: its logo is not an image, say.
FluentRefused ==
    /\ style = "Fluent" /\ ~running
    /\ ShowFails("show", TRUE)
    /\ UNCHANGED <<running, fluent, classic>>

FluentUpdates ==
    /\ style = "Fluent" /\ running
    /\ Goto("show", "register")
    /\ UNCHANGED <<style, sessions, closeCallback, running, after, wasOpen, failed, refused, fluent, classic>>

\* CurrentDialogVisible, asked until it says so.
FluentVisible ==
    /\ style = "Fluent"
    /\ Goto("wait", "register")
    /\ visible
    /\ running' = TRUE
    /\ UNCHANGED <<style, sessions, closeCallback, after, wasOpen, failed, refused, fluent, classic>>

ClassicStarts ==
    /\ style = "Classic" /\ ~running /\ ~xamlRead
    /\ Goto("show", "wait")
    /\ xamlRead' = TRUE
    /\ thread' = "starting"
    /\ UNCHANGED <<style, sessions, closeCallback, running, after, wasOpen, failed, refused, fluent, syncHash>>

\* XmlDocument.Load finds no root element.
ClassicHasNoXaml ==
    /\ style = "Classic" /\ ~running /\ xamlRead
    /\ ShowFails("show", FALSE)
    /\ UNCHANGED <<running, fluent, classic>>

ClassicUp == "Window" \in syncHash /\ Alive

\* Mutant: running as soon as the thread is.
ClassicIsUp_Started ==
    /\ style = "Classic"
    /\ Goto("wait", "register")
    /\ running' = TRUE
    /\ UNCHANGED <<style, sessions, closeCallback, after, wasOpen, failed, refused, fluent, classic>>

ClassicIsUp ==
    /\ style = "Classic"
    /\ Goto("wait", "register")
    /\ ClassicUp
    /\ running' = TRUE
    /\ UNCHANGED <<style, sessions, closeCallback, after, wasOpen, failed, refused, fluent, classic>>

\* Mutant: a runspace that fails is waited for.
ClassicIsNotUp_NotNoticed ==
    /\ style = "Classic"
    /\ IsCompleted /\ thread # "failed"
    /\ ShowFails("wait", FALSE)
    /\ UNCHANGED <<running, fluent, classic>>

ClassicIsNotUp ==
    /\ style = "Classic"
    /\ ~ClassicUp
    /\ "Error" \in syncHash \/ IsCompleted
    /\ ShowFails("wait", FALSE)
    /\ UNCHANGED <<running, fluent, classic>>

\* Dispatcher.Invoke returns when the window's thread has run the update.
ClassicUpdates ==
    /\ style = "Classic" /\ running
    /\ "Window" \in syncHash /\ thread = "shown"
    /\ Goto("show", "register")
    /\ UNCHANGED <<style, sessions, closeCallback, running, after, wasOpen, failed, refused, fluent, classic>>

ClassicLost ==
    /\ style = "Classic" /\ running
    /\ "Window" \notin syncHash
    /\ ShowFails("show", TRUE)
    /\ UNCHANGED <<running, fluent, classic>>

Register ==
    /\ Goto("register", "idle")
    /\ closeCallback' = (closeCallback \/ running # wasOpen)
    /\ UNCHANGED <<style, sessions, running, after, wasOpen, failed, refused, fluent, classic>>

-----------------------------------------------------------------------------
(* Show-ADTInstallationProgressClassicInternal.                             *)
ThreadAt(from, to) ==
    /\ thread = from
    /\ thread' = to
    /\ UNCHANGED <<style, sessions, closeCallback, running, call, fluent, xamlRead>>

LoadsWindow == ThreadAt("starting", "loaded") /\ syncHash' = syncHash \cup {"Window"}
ShowsWindow == ThreadAt("loaded", "shown") /\ UNCHANGED syncHash

\* The XAML, or the icon or banner, cannot be loaded.
ThreadFails ==
    /\ \E from \in {"starting", "loaded"} : thread = from /\ thread' = "failing"
    /\ syncHash' = syncHash \cup {"Error"}
    /\ refused' = TRUE
    /\ UNCHANGED <<style, sessions, closeCallback, running, pc, after, wasOpen, failed, fluent, xamlRead>>

ThreadEnds ==
    /\ \/ ThreadAt("ended", "completed")
       \/ ThreadAt("failing", "failed")
    /\ UNCHANGED syncHash

ThreadStep == LoadsWindow \/ ShowsWindow \/ ThreadFails \/ ThreadEnds

-----------------------------------------------------------------------------
(* Close-ADTInstallationProgress, which returns to "after".                 *)
BeginClose(from, to) ==
    /\ Goto(from, "close")
    /\ after' = to
    /\ UNCHANGED <<style, sessions, closeCallback, running, wasOpen, failed, refused, fluent, classic>>

NothingToClose ==
    /\ Goto("close", after)
    /\ ~running \/ IsSilent
    /\ UNCHANGED <<style, sessions, closeCallback, running, after, wasOpen, failed, refused, fluent, classic>>

Closed ==
    /\ pc' = after
    /\ running' = FALSE
    /\ closeCallback' = FALSE
    /\ UNCHANGED <<style, sessions, after, wasOpen, failed, refused>>

\* Mutant: the flag is reset, the window stays.
FluentCloses_FlagOnly ==
    /\ pc = "close"
    /\ style = "Fluent" /\ running /\ ~IsSilent
    /\ Closed
    /\ UNCHANGED <<fluent, classic>>

FluentCloses ==
    /\ pc = "close"
    /\ style = "Fluent" /\ running /\ ~IsSilent
    /\ current' = IF current = "progress" THEN "none" ELSE current
    /\ visible' = FALSE
    /\ Closed
    /\ UNCHANGED <<strays, userClosed, bare, classic>>

ClassicCloses ==
    /\ pc = "close"
    /\ style = "Classic" /\ running /\ ~IsSilent
    /\ IF "Window" \in syncHash /\ ~IsCompleted
       THEN pc' = "closing" /\ UNCHANGED syncHash
       ELSE pc' = "endInvoke" /\ syncHash' = IF "Window" \in syncHash THEN {} ELSE syncHash
    /\ UNCHANGED <<style, sessions, closeCallback, running, after, wasOpen, failed, refused, fluent,
                   xamlRead, thread>>

\* Dispatcher.Invoke: the window's thread closes it, and ShowDialog returns.
ClassicClosesWindow ==
    /\ thread = "shown"
    /\ Goto("closing", "ending")
    /\ thread' = "ended"
    /\ UNCHANGED <<style, sessions, closeCallback, running, after, wasOpen, failed, refused, fluent,
                   xamlRead, syncHash>>

ClassicEnded ==
    /\ IsCompleted
    /\ Goto("ending", "endInvoke")
    /\ syncHash' = {}
    /\ UNCHANGED <<style, sessions, closeCallback, running, after, wasOpen, failed, refused, fluent,
                   xamlRead, thread>>

ClassicDisposes ==
    /\ pc = "endInvoke" /\ thread # "failed"
    /\ Closed
    /\ UNCHANGED <<fluent, classic>>

\* EndInvoke throws what ended the script; the prompt that asked is not shown.
ClassicEndThrows ==
    /\ pc = "endInvoke" /\ thread = "failed"
    /\ pc' = IF after = "dialog" THEN "idle" ELSE after
    /\ UNCHANGED <<style, sessions, closeCallback, running, after, wasOpen, failed, refused, fluent, classic>>

CloseProgress == BeginClose("idle", "idle")

-----------------------------------------------------------------------------
(* Show-ADTInstallationPrompt and Show-ADTInstallationRestartPrompt.  With a *)
(* session the latter, as NoWait does for the former, uses a process of its *)
(* own, and shares nothing with this one.                                   *)
\* Mutant: a prompt does not close the progress dialog first.
Prompt_OverProgress ==
    /\ strays < MaxStrays
    /\ sessions # <<>> => Top = "Interactive"
    /\ Goto("idle", "dialog")
    /\ UNCHANGED <<style, sessions, closeCallback, running, after, wasOpen, failed, refused, fluent, classic>>

Prompt ==
    /\ strays < MaxStrays
    /\ IF sessions # <<>> THEN Top = "Interactive" /\ BeginClose("idle", "dialog")
       ELSE /\ Goto("idle", "dialog")
            /\ UNCHANGED <<style, sessions, closeCallback, running, after, wasOpen, failed, refused, fluent, classic>>

\* The dialog, until it is answered; a fluent one becomes the current window.
Dialog ==
    /\ Goto("dialog", "idle")
    /\ bare' = (bare \/ sessions = <<>>)
    /\ IF style = "Fluent"
       THEN Displace /\ current' = "dialog" /\ visible' = FALSE
       ELSE UNCHANGED <<current, visible, strays>>
    /\ UNCHANGED <<style, sessions, closeCallback, running, after, wasOpen, failed, refused, userClosed, classic>>

-----------------------------------------------------------------------------
(* Sessions.                                                                *)
\* Called from the console, Open-ADTSession forgets the sessions there are.
OpenSession(mode, console) ==
    /\ pc = "idle"
    /\ Len(sessions) < MaxDepth
    /\ sessions' = IF console THEN <<mode>> ELSE Append(sessions, mode)
    /\ UNCHANGED <<style, closeCallback, running, call, fluent, classic>>

OpenFails ==
    /\ Goto("idle", "exit")
    /\ sessions' \in {sessions, <<>>}
    /\ UNCHANGED <<style, closeCallback, running, after, wasOpen, failed, refused, fluent, classic>>

CloseSession ==
    /\ sessions # <<>>
    /\ IF Len(sessions) = 1 /\ closeCallback THEN BeginClose("idle", "pop")
       ELSE /\ Goto("idle", "pop")
            /\ UNCHANGED <<style, sessions, closeCallback, running, after, wasOpen, failed, refused, fluent, classic>>

Pop ==
    /\ pc = "pop"
    /\ sessions' = SubSeq(sessions, 1, Len(sessions) - 1)
    /\ pc' = IF Len(sessions) = 1 THEN "exit" ELSE "idle"
    /\ UNCHANGED <<style, closeCallback, running, after, wasOpen, failed, refused, fluent, classic>>

\* Mutant: closed again until the flag is off.
ExitADTInvocation_Retries ==
    IF running THEN BeginClose("exit", "exit")
    ELSE /\ Goto("exit", "leave")
         /\ UNCHANGED <<style, sessions, closeCallback, running, after, wasOpen, failed, refused, fluent, classic>>

\* Mutant: without the additional safety item.
ExitADTInvocation_Plain ==
    /\ Goto("exit", "leave")
    /\ UNCHANGED <<style, sessions, closeCallback, running, after, wasOpen, failed, refused, fluent, classic>>

ExitADTInvocation ==
    IF running THEN BeginClose("exit", "leave")
    ELSE /\ Goto("exit", "leave")
         /\ UNCHANGED <<style, sessions, closeCallback, running, after, wasOpen, failed, refused, fluent, classic>>

\* With NoShellExit the host lives on; without, NewHost follows.
Leave ==
    /\ Goto("leave", "idle")
    /\ UNCHANGED <<style, sessions, closeCallback, running, after, wasOpen, failed, refused, fluent, classic>>

-----------------------------------------------------------------------------
(* The user, who may press Alt+F4 in a fluent window, and the host's end.   *)
UserCloses ==
    /\ visible
    /\ visible' = FALSE
    /\ userClosed' = TRUE
    /\ UNCHANGED <<style, sessions, closeCallback, running, call, current, strays, bare, classic>>

UserClosesStray ==
    /\ strays > 0
    /\ strays' = strays - 1
    /\ UNCHANGED <<style, sessions, closeCallback, running, call, current, visible, userClosed, bare, classic>>

\* The host exits or is killed, and its windows go with it.
NewHost ==
    /\ style' \in {"Classic", "Fluent"}
    /\ sessions' = <<>>
    /\ closeCallback' = FALSE /\ running' = FALSE
    /\ current' = "none" /\ visible' = FALSE /\ strays' = 0
    /\ xamlRead' = FALSE /\ thread' = "none" /\ syncHash' = {}
    /\ pc' = "idle" /\ after' = "idle" /\ wasOpen' = FALSE
    /\ failed' = FALSE /\ refused' = FALSE
    /\ userClosed' = FALSE /\ bare' = FALSE

-----------------------------------------------------------------------------
\* The script's next call.
Begin ==
    \/ Show
    \/ CloseProgress
    \/ Prompt
    \/ OpenFails
    \/ CloseSession
    \/ \E mode \in Mode, console \in BOOLEAN : OpenSession(mode, console)

\* The call in progress.
HostStep ==
    \/ FluentOpens \/ FluentRefused \/ FluentUpdates \/ FluentVisible
    \/ ClassicStarts \/ ClassicHasNoXaml \/ ClassicIsUp \/ ClassicIsNotUp
    \/ ClassicUpdates \/ ClassicLost \/ Register
    \/ NothingToClose \/ FluentCloses
    \/ ClassicCloses \/ ClassicClosesWindow \/ ClassicEnded \/ ClassicDisposes \/ ClassicEndThrows
    \/ Dialog \/ Pop \/ ExitADTInvocation \/ Leave

Next == Begin \/ HostStep \/ ThreadStep \/ UserCloses \/ UserClosesStray \/ NewHost

Spec == Init /\ [][Next]_vars

\* The host runs its script and the runspace its own; neither the script's
\* next call nor the user can be counted on.
FairSpec == Spec /\ WF_vars(HostStep) /\ WF_vars(ThreadStep)

-----------------------------------------------------------------------------
(* Properties.                                                              *)

\* Between calls, what is not flagged as running is not on the screen: no
\* failure in the runspace, no prompt and no closing of sessions leaves behind
\* a window that no later call would close (Close-ADTInstallationProgress
\* looks at the flag only).
NoOrphan == pc = "idle" /\ ~running => ~OnScreen

\* The application's thread never loses track of a progress window, except
\* through a prompt shown without a session: with one, every prompt closes the
\* dialog first, whatever the modes of the sessions (ADTApplication.cs keeps
\* one current window and each dialog replaces it).
NoStrays == strays > 0 => bare

\* The flag tells the truth: once Show-ADTInstallationProgress has returned,
\* the window is there, or was closed by the user or displaced as above, or
\* the runspace has failed after it had announced the window.
RunningMeansOpen ==
    pc = "idle" /\ running =>
        IF style = "Fluent" THEN (current = "progress" /\ (visible \/ userClosed)) \/ bare
                            ELSE thread \in {"loaded", "shown", "failing", "failed"}

\* When the last session has closed, or the first could not be opened, the
\* progress dialog is gone, also when the closing session is a silent one
\* inside which or around which it was opened; only a runspace that has
\* failed keeps the flag set.
GoneAtExit == pc = "leave" /\ sessions = <<>> /\ running => thread = "failed"

\* The host waits for good only in three places: in Show- when the user has
\* closed the fluent window before it was seen, and in Show- or Close- on the
\* dispatcher of a classic window whose thread has failed.
Hangs ==
    \/ style = "Fluent" /\ pc = "wait" /\ ~visible
    \/ style = "Classic" /\ pc \in {"show", "closing"} /\ thread \in {"failing", "failed"}

\* How far a call is from its end, wherever Close-ADTInstallationProgress is
\* called from: closing is four points, and then what "after" says is left.
Remaining(label) ==
    CASE label = "pop" -> 7
      [] label \in {"show", "exit"} -> 6
      [] label = "wait" -> 5
      [] label \in {"register", "dialog", "leave"} -> 1
      [] OTHER -> 0

Distance(label, return) ==
    CASE label = "close" -> Remaining(return) + 4
      [] label = "closing" -> Remaining(return) + 3
      [] label = "ending" -> Remaining(return) + 2
      [] label = "endInvoke" -> Remaining(return) + 1
      [] OTHER -> Remaining(label)

Nearer == Distance(pc', after') < Distance(pc, after)

\* Every step of a call brings it nearer to its end, and neither the runspace
\* nor the user takes it back: the last Close-ADTSession, which closes the
\* dialog by the callback and again before the host exits, and a dialog that
\* cannot be closed, do not make the host go round in circles.
CallsAdvance ==
    [][pc # "idle" => /\ HostStep => Nearer
                      /\ Nearer \/ UNCHANGED <<pc, after>>]_vars

\* Every call of the script comes to its end, or to one of those places.
CallReturns == pc # "idle" ~> pc = "idle" \/ Hangs

\* What the help of Show-ADTInstallationProgress says: it displays a progress
\* dialog.  It fails only if something outside the toolkit ever has.
OpensAgain == failed => refused
=============================================================================
