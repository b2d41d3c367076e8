--------------------------- MODULE WelcomeWindow ---------------------------
(***************************************************************************)
(* The list of running applications in one prompt of                       *)
(* Show-ADTInstallationWelcome, while applications start and stop under    *)
(* it: ProcessEvaluationService with its cache, and the WelcomeDialog whose *)
(* background loop polls it; and the timer of the classic form, which has  *)
(* neither.  DynamicProcessEvaluation is on.                               *)
(*                                                                         *)
(* The UI thread takes one step per event.  The loop of the fluent window  *)
(* is a task: it waits, looks every application up, reads those that are   *)
(* not in the cache each in a task of its own, and has the UI thread       *)
(* replace the list.  Applications may end between a lookup and the end of *)
(* the read it began, and so may the window: a round in progress goes on   *)
(* until it meets the cancelled token, if it does.  A second prompt makes a *)
(* new service and a new window and shares nothing with this one.          *)
(*                                                                         *)
(* The service's trace events do not appear: Windows names the image file  *)
(* in them ("app.exe"), the service tracks process names ("app"), and so   *)
(* takes none of them for an application of its own.                       *)
(***************************************************************************)
EXTENDS Naturals, FiniteSets

CONSTANTS
    App,           \* the CloseProcesses of the call
    Interval,      \* seconds between two rounds of the loop
    LoopFresh,     \* age up to which the loop believes the cache
    WindowFresh    \* age up to which the constructor and Loaded do

ASSUME TimeAssumption ==
    /\ Interval \in Nat \ {0}
    /\ LoopFresh \in Nat
    /\ WindowFresh \in Nat
    /\ Interval <= LoopFresh
    /\ LoopFresh <= WindowFresh

VARIABLES
    style,      \* DialogStyle
    running,    \* applications that have a process
    shielded,   \* those whose process the service may not read
    window,     \* none, enumerated (by the caller), made, open, closed
    watched,    \* applications the prompt evaluates
    listed,     \* AppsToCloseCollection, or the items of listboxCloseProcesses
    previous,   \* _previousProcessInfo, or $welcomeState.RunningProcessDescriptions
    age,        \* [App -> age of the entry of _trackedProcesses]
    loop,       \* StartProcessEvaluationLoopAsync, or timerRunningProcesses
    waited,     \* seconds of the present wait
    task,       \* [App -> progress of its evaluation in the present round]
    gone        \* history: [App -> lookups since its last process ended]

vars == <<style, running, shielded, window, watched, listed, previous, age, loop, waited, task, gone>>

\* An entry this old is read anew, as one that is missing.
Old == WindowFresh + 1

\* How many rounds may still find an application that has ended.
StaleLookups == LoopFresh \div Interval

TypeOK ==
    /\ style \in {"Classic", "Fluent"}
    /\ running \subseteq App
    /\ shielded \subseteq running
    /\ window \in {"none", "enumerated", "made", "open", "closed"}
    /\ watched \subseteq App
    /\ listed \subseteq App
    /\ previous \subseteq App
    /\ age \in [App -> 0..Old]
    /\ loop \in {"off", "delay", "evaluate", "ended"}
    /\ waited \in 0..Interval
    /\ task \in [App -> {"idle", "look", "read", "orphan", "in", "out", "cancelled"}]
    /\ gone \in [App -> 0..StaleLookups + 1]

Init ==
    /\ style \in {"Classic", "Fluent"}
    /\ running \in SUBSET App
    /\ shielded \in SUBSET running
    /\ window = "none"
    /\ watched = {}
    /\ listed = {}
    /\ previous = {}
    /\ age = [a \in App |-> Old]
    /\ loop = "off"
    /\ waited = 0
    /\ task = [a \in App |-> "idle"]
    /\ gone = [a \in App |-> 0]

-----------------------------------------------------------------------------
(* The machine.                                                             *)
Start(a) ==
    /\ a \notin running
    /\ running' = running \cup {a}
    /\ shielded' \in {shielded, shielded \cup {a}}
    /\ UNCHANGED <<style, window, watched, listed, previous, age, loop, waited, task, gone>>

\* A process that is being read, or was enumerated and not yet shown, is lost.
End(a) ==
    /\ a \in running
    /\ running' = running \ {a}
    /\ shielded' = shielded \ {a}
    /\ watched' = IF window = "enumerated" THEN watched \ {a} ELSE watched
    /\ task' = [task EXCEPT ![a] = IF @ = "read" THEN "orphan" ELSE @]
    /\ gone' = [gone EXCEPT ![a] = 0]
    /\ UNCHANGED <<style, window, listed, previous, age, loop, waited>>

\* Only Load asks for ages above LoopFresh: after it they are all Old.
Older(n) == IF n = Old \/ (window # "made" /\ n >= LoopFresh) THEN Old ELSE n + 1

\* Mutant: OnClosed leaves the loop to itself.
Cancelled_NotOnClosed == FALSE

\* The token of the fluent window's loop: closing the window cancels it, and a
\* wait that is not over then will not be.
Cancelled == window = "closed"

\* Mutant: the wait is not bounded.
Tick_WaitsOn ==
    /\ window \in {"made", "open", "closed"}
    /\ age' = [a \in App |-> Older(age[a])]
    /\ waited' = IF loop = "delay" /\ ~Cancelled THEN waited + 1 ELSE waited
    /\ UNCHANGED <<style, running, shielded, window, watched, listed, previous, loop, task, gone>>

\* A second passes.
Tick ==
    /\ window \in {"made", "open", "closed"}
    /\ age' = [a \in App |-> Older(age[a])]
    /\ waited' = IF loop = "delay" /\ ~Cancelled /\ waited < Interval THEN waited + 1 ELSE waited
    /\ UNCHANGED <<style, running, shielded, window, watched, listed, previous, loop, task, gone>>

-----------------------------------------------------------------------------
(* Making the window.                                                       *)

\* Show-ADTInstallationWelcome enumerates the processes the prompt is about.
Enumerate ==
    /\ window = "none"
    /\ window' = "enumerated"
    /\ watched' = running
    /\ previous' = running
    /\ UNCHANGED <<style, running, shielded, listed, age, loop, waited, task, gone>>

Readable(a) == a \in running \ shielded

\* EvaluateRunningProcesses, on the UI thread, for the applications of the set.
Found(apps) == {a \in apps : age[a] <= WindowFresh \/ Readable(a)}

UpdateAppsToCloseList ==
    /\ listed' = Found(watched)
    /\ previous' = Found(watched)
    /\ age' = [a \in App |-> IF a \in Found(watched) /\ age[a] > WindowFresh THEN 0 ELSE age[a]]

\* The constructor of WelcomeDialog; only enumerated processes are passed on.
MakeFluent ==
    /\ window = "enumerated"
    /\ style = "Fluent"
    /\ window' = "made"
    /\ UpdateAppsToCloseList
    /\ UNCHANGED <<style, running, shielded, watched, loop, waited, task, gone>>

\* WelcomeWindow_Loaded.
Load ==
    /\ window = "made"
    /\ window' = "open"
    /\ UpdateAppsToCloseList
    /\ loop' = IF watched = {} THEN "off" ELSE "delay"
    /\ waited' = 0
    /\ UNCHANGED <<style, running, shielded, watched, task, gone>>

\* The classic form takes the caller's list and evaluates all of CloseProcesses.
OpenClassic ==
    /\ window = "enumerated"
    /\ style = "Classic"
    /\ window' = "open"
    /\ watched' = App
    /\ listed' = previous
    /\ loop' = "delay"
    /\ UNCHANGED <<style, running, shielded, previous, age, waited, task, gone>>

-----------------------------------------------------------------------------
(* The loop of the fluent window.                                           *)

\* Mutant: Task.Delay is not awaited.
DelayOver_NoWait ==
    /\ style = "Fluent"
    /\ loop = "delay"
    /\ loop' = "evaluate"
    /\ task' = [a \in App |-> IF a \in watched THEN "look" ELSE "idle"]
    /\ UNCHANGED <<style, running, shielded, window, watched, listed, previous, age, waited, gone>>

\* The wait is over; what follows it may find the window closed.
DelayOver ==
    /\ style = "Fluent"
    /\ loop = "delay"
    /\ waited = Interval
    /\ loop' = "evaluate"
    /\ task' = [a \in App |-> IF a \in watched THEN "look" ELSE "idle"]
    /\ UNCHANGED <<style, running, shielded, window, watched, listed, previous, age, waited, gone>>

CountLookup(a) ==
    gone' = [gone EXCEPT ![a] = IF a \notin running /\ @ <= StaleLookups THEN @ + 1 ELSE @]

\* The cache, else the processes of that name, each of which is read if the
\* token lets it; a read that is refused finds nothing.
LookedUp(a) ==
    IF age[a] <= LoopFresh THEN "in"
    ELSE IF a \notin running THEN "out"
    ELSE IF Cancelled THEN "cancelled"
    ELSE IF a \in shielded THEN "out"
    ELSE "read"

\* Mutant: the merged entry is stored as of now.
Look_Renews(a) ==
    /\ task[a] = "look"
    /\ task' = [task EXCEPT ![a] = LookedUp(a)]
    /\ age' = [age EXCEPT ![a] = IF @ <= LoopFresh THEN 0 ELSE @]
    /\ CountLookup(a)
    /\ UNCHANGED <<style, running, shielded, window, watched, listed, previous, loop, waited>>

\* EvaluateRunningProcessesAsync up to its first await.  Storing the merged
\* entry keeps its LastUpdated.
Look(a) ==
    /\ task[a] = "look"
    /\ task' = [task EXCEPT ![a] = LookedUp(a)]
    /\ CountLookup(a)
    /\ UNCHANGED <<style, running, shielded, window, watched, listed, previous, age, loop, waited>>

\* GetProcessInfoAsync succeeds; with a process that has ended it may, too, and
\* with a token that is cancelled after its last look at it.
ReadStored(a) ==
    /\ task[a] \in {"read", "orphan"}
    /\ task' = [task EXCEPT ![a] = "in"]
    /\ age' = [age EXCEPT ![a] = 0]
    /\ UNCHANGED <<style, running, shielded, window, watched, listed, previous, loop, waited, gone>>

\* It fails, with a process that has ended.
ReadFails(a) ==
    /\ task[a] = "orphan"
    /\ task' = [task EXCEPT ![a] = "out"]
    /\ UNCHANGED <<style, running, shielded, window, watched, listed, previous, age, loop, waited, gone>>

\* It meets the token at one of its awaits.
ReadCancelled(a) ==
    /\ task[a] \in {"read", "orphan"}
    /\ Cancelled
    /\ task' = [task EXCEPT ![a] = "cancelled"]
    /\ UNCHANGED <<style, running, shielded, window, watched, listed, previous, age, loop, waited, gone>>

Updated == {a \in watched : task[a] = "in"}

\* Mutant: the lists are compared by their length.
Update_SameLength ==
    /\ loop = "evaluate"
    /\ \A a \in watched : task[a] \in {"in", "out"}
    /\ IF Cardinality(previous) # Cardinality(Updated)
       THEN listed' = Updated /\ previous' = Updated
       ELSE UNCHANGED <<listed, previous>>
    /\ loop' = IF Updated = {} \/ Cancelled THEN "ended" ELSE "delay"
    /\ waited' = 0
    /\ task' = [a \in App |-> "idle"]
    /\ UNCHANGED <<style, running, shielded, window, watched, age, gone>>

\* The end of a round; the loop ends with the list, too, and the while test
\* sees the token.
Update ==
    /\ loop = "evaluate"
    /\ \A a \in watched : task[a] \in {"in", "out"}
    /\ IF Updated # previous
       THEN listed' = Updated /\ previous' = Updated
       ELSE UNCHANGED <<listed, previous>>
    /\ loop' = IF Updated = {} \/ Cancelled THEN "ended" ELSE "delay"
    /\ waited' = 0
    /\ task' = [a \in App |-> "idle"]
    /\ UNCHANGED <<style, running, shielded, window, watched, age, gone>>

\* The tasks of a round have all ended, one of them by the token: the await of
\* them all throws, and the loop's catch is its end.
RoundCancelled ==
    /\ loop = "evaluate"
    /\ \A a \in watched : task[a] \in {"in", "out", "cancelled"}
    /\ \E a \in watched : task[a] = "cancelled"
    /\ loop' = "ended"
    /\ task' = [a \in App |-> "idle"]
    /\ UNCHANGED <<style, running, shielded, window, watched, listed, previous, age, waited, gone>>

\* So is the await of a wait that is cancelled.
DelayCancelled ==
    /\ style = "Fluent"
    /\ loop = "delay"
    /\ Cancelled
    /\ loop' = "ended"
    /\ UNCHANGED <<style, running, shielded, window, watched, listed, previous, age, waited, task, gone>>

-----------------------------------------------------------------------------
(* The timer of the classic form.  It closes the form, to be shown again,   *)
(* when the last application has ended or the first one has started.        *)
ClassicTick ==
    /\ style = "Classic"
    /\ window = "open"
    /\ waited = Interval
    /\ waited' = 0
    /\ listed' = IF running # previous THEN running ELSE listed
    /\ previous' = IF running # previous THEN running ELSE previous
    /\ window' = IF (previous = {}) # (running = {}) THEN "closed" ELSE "open"
    /\ gone' = [a \in App |-> IF a \notin running /\ gone[a] <= StaleLookups
                              THEN gone[a] + 1 ELSE gone[a]]
    /\ UNCHANGED <<style, running, shielded, watched, age, loop, task>>

\* ShowDialog has returned.
StopTimer ==
    /\ style = "Classic"
    /\ window = "closed"
    /\ loop = "delay"
    /\ loop' = "ended"
    /\ UNCHANGED <<style, running, shielded, window, watched, listed, previous, age, waited, task, gone>>

\* A button, the window's own close command, or the expiry of the dialog.
Answer ==
    /\ window = "open"
    /\ window' = "closed"
    /\ UNCHANGED <<style, running, shielded, watched, listed, previous, age, loop, waited, task, gone>>

-----------------------------------------------------------------------------
Open == Enumerate \/ MakeFluent \/ Load \/ OpenClassic
Evaluate(a) == Look(a) \/ ReadStored(a) \/ ReadFails(a) \/ ReadCancelled(a)
Ends == RoundCancelled \/ DelayCancelled \/ StopTimer
Loop == DelayOver \/ Update \/ Ends \/ ClassicTick \/ \E a \in App : Evaluate(a)

Next ==
    \/ \E a \in App : Start(a) \/ End(a)
    \/ Tick
    \/ Open
    \/ Loop
    \/ Answer

Spec == Init /\ [][Next]_vars

(* Time passes, the UI thread and the tasks are scheduled.  Nothing is      *)
(* asked of the applications or of the user.                                *)
Fairness ==
    /\ WF_vars(Tick)
    /\ WF_vars(Open)
    /\ WF_vars(DelayOver) /\ WF_vars(Update) /\ WF_vars(Ends) /\ WF_vars(ClassicTick)
    /\ \A a \in App : WF_vars(Evaluate(a))

FairSpec == Spec /\ Fairness

-----------------------------------------------------------------------------
(* Why StaleRounds holds: what the proofs carry along.                      *)

\* Lookups that have missed the end of a.
Missed(a) == IF a \in running THEN 0 ELSE gone[a]

\* Seconds that have passed since the last lookup, as far as they are known.
Since(a) ==
    IF loop = "delay" THEN waited ELSE IF task[a] = "look" THEN Interval ELSE 0

\* A cached entry is as old as the lookups that have missed the end.
Aged ==
    style = "Fluent" =>
        \A a \in App : age[a] <= LoopFresh => Interval * Missed(a) + Since(a) <= age[a]

Flow ==
    /\ window \in {"none", "enumerated"} => listed = {}
    /\ window \in {"made", "open", "closed"} => listed = previous
    /\ window \in {"none", "enumerated", "made"} => loop = "off"
    /\ loop = "off" => waited = 0 /\ \A a \in App : gone[a] = 0
    /\ loop # "evaluate" => \A a \in App : task[a] = "idle"
    /\ style = "Classic" => loop # "evaluate"
    /\ \A a \in App : task[a] = "read" => a \in running
    /\ \A a \in App : task[a] = "orphan" => Missed(a) = 0

FoundInTime ==
    /\ style = "Fluent" => \A a \in App : task[a] = "in" => Missed(a) <= StaleLookups
    /\ style = "Fluent" /\ loop = "delay" => \A a \in listed : Missed(a) <= StaleLookups
    /\ style = "Classic" => \A a \in listed : Missed(a) = 0

-----------------------------------------------------------------------------
(* Properties.                                                              *)

\* The list is never more than StaleLookups rounds behind: an application of
\* which LoopFresh \div Interval finished rounds have found only the cached
\* entry is not found again, however long a read took to store its entry
\* (ProcessEvaluationService's five seconds, and what it stores after awaits).
StaleRounds ==
    loop = "delay" => \A a \in listed \ running : gone[a] <= StaleLookups

\* As long as nobody answers, an application that has ended for good leaves
\* the list (the update of AppsToCloseCollection).
LeavesList ==
    \A a \in App : <>[](a \notin running) => <>[](a \notin listed \/ window = "closed")

\* One the window knows and can read, and which runs on, is in the list,
\* unless the loop has ended with the list (StartProcessEvaluationLoopAsync).
GetsListed ==
    \A a \in App :
        <>[](Readable(a) /\ a \in watched) =>
            <>[](a \in listed \/ loop = "ended" \/ window = "closed")

\* The loop does not outlive the window by more than the round it is in,
\* although some reads do not meet the token and what they find is still
\* listed (OnClosed cancels _cts; StartProcessEvaluationLoopAsync).
LoopStops == (window = "closed") ~> (loop \in {"off", "ended"})

\* What config.psd1 says of DynamicProcessEvaluation: one that runs on is
\* listed, whenever it was started.  Not so in the fluent window.
ReflectsRunning ==
    \A a \in App : <>[]Readable(a) => <>[](a \in listed \/ window # "open")
=============================================================================
