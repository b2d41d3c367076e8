--------------------- MODULE InstallationProgress_proofs ---------------------
(***************************************************************************)
(* Proofs about InstallationProgress, for every nesting depth and number   *)
(* of lost windows.  The safety invariants follow from one inductive       *)
(* invariant, whose parts say what either style leaves alone, where the    *)
(* runspace can be while the host is somewhere, and what a call in         *)
(* progress has made sure of.                                              *)
(***************************************************************************)
EXTENDS InstallationProgress, TLAPS

InClose == pc \in {"close", "closing", "ending", "endInvoke"}

\* TypeOK in two parts, for the provers: the Boolean variables, and the others.
Booleans ==
    /\ closeCallback \in BOOLEAN
    /\ running \in BOOLEAN
    /\ visible \in BOOLEAN
    /\ xamlRead \in BOOLEAN
    /\ wasOpen \in BOOLEAN
    /\ failed \in BOOLEAN
    /\ refused \in BOOLEAN
    /\ userClosed \in BOOLEAN
    /\ bare \in BOOLEAN

Values ==
    /\ style \in {"Classic", "Fluent"}
    /\ sessions \in Seq(Mode)
    /\ current \in {"none", "progress", "dialog"}
    /\ strays \in 0..MaxStrays
    /\ thread \in {"none", "starting", "loaded", "shown", "ended", "failing", "completed", "failed"}
    /\ syncHash \subseteq {"Window", "Error"}
    /\ pc \in {"idle", "show", "wait", "register", "close", "closing", "ending", "endInvoke",
               "dialog", "pop", "exit", "leave"}
    /\ after \in {"idle", "dialog", "pop", "leave"}

\* Each style uses its own half of the state.
Halves ==
    /\ style = "Fluent" =>
          /\ thread = "none" /\ syncHash = {} /\ ~xamlRead
          /\ pc \notin {"closing", "ending", "endInvoke"}
    /\ style = "Classic" => current = "none" /\ ~visible /\ strays = 0
    /\ visible => current = "progress"

\* The runspace and what it has announced.
Runspace ==
    /\ xamlRead <=> thread # "none"
    /\ thread = "none" => syncHash = {}
    /\ thread = "none" /\ style = "Classic" => ~running /\ pc # "wait"
    /\ thread = "starting" => pc = "wait" /\ syncHash = {}
    /\ thread \in {"loaded", "shown"} =>
          syncHash = {"Window"} /\ (pc = "wait" \/ running)
    /\ thread = "ended" => pc = "ending"
    /\ thread = "failing" => "Error" \in syncHash /\ (running => "Window" \in syncHash)
    /\ thread = "completed" => pc \in {"ending", "endInvoke"} \/ ~running

\* Where the host is in Close-.
Closing ==
    /\ pc \in {"closing", "ending", "endInvoke"} => running
    /\ pc = "closing" => thread \in {"loaded", "shown", "failing", "failed"}
    /\ pc = "ending" => thread \in {"ended", "completed"}
    /\ pc = "endInvoke" => thread \in {"completed", "failed"}
    /\ InClose /\ after = "dialog" => sessions # <<>> /\ ~IsSilent
    /\ pc = "dialog" => sessions = <<>> \/ ~running

\* What the flag means at any point of a call.
Flag ==
    /\ pc = "wait" => ~running
    /\ pc = "wait" /\ style = "Classic" => thread \notin {"none", "completed", "ended"}
    /\ pc = "wait" /\ style = "Fluent" => current = "progress" /\ (visible \/ userClosed)
    /\ ~running /\ pc # "wait" => ~OnScreen
    /\ running /\ style = "Fluent" => (current = "progress" /\ (visible \/ userClosed)) \/ bare
    /\ running /\ style = "Classic" =>
          thread \in {"loaded", "shown", "ended", "failing", "failed", "completed"}

Room == (pc \in {"show", "dialog"} \/ (InClose /\ after = "dialog")) => strays < MaxStrays

Core == Values /\ Halves /\ Runspace /\ Closing /\ Flag /\ Room /\ NoStrays /\ GoneAtExit

IInv == Booleans /\ Core

-----------------------------------------------------------------------------
LEMMA Types == TypeOK <=> Booleans /\ Values
BY DEF TypeOK, Booleans, Values

LEMMA InvInit == Init => IInv
<1> SUFFICES ASSUME Init PROVE IInv
  OBVIOUS
<1> USE DEF Init
<1>1. Booleans
  BY DEF Booleans
<1>2. Values
  BY BoundAssumption DEF Values
<1>3. Halves /\ Runspace /\ Closing /\ Flag /\ Room /\ NoStrays /\ GoneAtExit
  BY DEF Halves, Runspace, Closing, Flag, Room, NoStrays, GoneAtExit, InClose, OnScreen
<1> QED
  BY <1>1, <1>2, <1>3 DEF IInv, Core

LEMMA BooleansStep == Booleans /\ [Next]_vars => Booleans'
<1> SUFFICES ASSUME Booleans, [Next]_vars PROVE Booleans'
  OBVIOUS
<1> USE BoundAssumption DEF Goto, BeginClose, ShowFails, Closed, Displace, ThreadAt, call, fluent, classic,
      Booleans
<1>1. CASE Show
  BY <1>1 DEF Show
<1>2. CASE OpenFails
  BY <1>2 DEF OpenFails
<1>3. CASE CloseProgress
  BY <1>3 DEF CloseProgress
<1>4. CASE Prompt
  BY <1>4 DEF Prompt
<1>5. CASE CloseSession
  BY <1>5 DEF CloseSession
<1>6. CASE FluentOpens
  BY <1>6 DEF FluentOpens
<1>7. CASE FluentRefused
  BY <1>7 DEF FluentRefused
<1>8. CASE FluentUpdates
  BY <1>8 DEF FluentUpdates
<1>9. CASE FluentVisible
  BY <1>9 DEF FluentVisible
<1>10. CASE ClassicStarts
  BY <1>10 DEF ClassicStarts
<1>11. CASE ClassicHasNoXaml
  BY <1>11 DEF ClassicHasNoXaml
<1>12. CASE ClassicIsUp
  BY <1>12 DEF ClassicIsUp
<1>13. CASE ClassicIsNotUp
  BY <1>13 DEF ClassicIsNotUp
<1>14. CASE ClassicUpdates
  BY <1>14 DEF ClassicUpdates
<1>15. CASE ClassicLost
  BY <1>15 DEF ClassicLost
<1>16. CASE Register
  BY <1>16 DEF Register
<1>17. CASE NothingToClose
  BY <1>17 DEF NothingToClose
<1>18. CASE FluentCloses
  BY <1>18 DEF FluentCloses
<1>19. CASE ClassicCloses
  BY <1>19 DEF ClassicCloses
<1>20. CASE ClassicClosesWindow
  BY <1>20 DEF ClassicClosesWindow
<1>21. CASE ClassicEnded
  BY <1>21 DEF ClassicEnded
<1>22. CASE ClassicDisposes
  BY <1>22 DEF ClassicDisposes
<1>23. CASE ClassicEndThrows
  BY <1>23 DEF ClassicEndThrows
<1>24. CASE Dialog
  BY <1>24 DEF Dialog
<1>25. CASE Pop
  BY <1>25 DEF Pop
<1>26. CASE ExitADTInvocation
  BY <1>26 DEF ExitADTInvocation
<1>27. CASE Leave
  BY <1>27 DEF Leave
<1>28. CASE LoadsWindow
  BY <1>28 DEF LoadsWindow
<1>29. CASE ShowsWindow
  BY <1>29 DEF ShowsWindow
<1>30. CASE ThreadFails
  BY <1>30 DEF ThreadFails
<1>31. CASE ThreadEnds
  BY <1>31 DEF ThreadEnds
<1>32. CASE UserCloses
  BY <1>32 DEF UserCloses
<1>33. CASE UserClosesStray
  BY <1>33 DEF UserClosesStray
<1>34. CASE NewHost
  BY <1>34 DEF NewHost
<1>35. ASSUME NEW mode \in Mode, NEW console \in BOOLEAN, OpenSession(mode, console) PROVE Booleans'
  BY <1>35 DEF OpenSession
<1>36. CASE UNCHANGED vars
  BY <1>36 DEF vars
<1> QED
  BY <1>1, <1>2, <1>3, <1>4, <1>5, <1>6, <1>7, <1>8, <1>9, <1>10, <1>11, <1>12, <1>13, <1>14, <1>15, <1>16, <1>17, <1>18,
     <1>19, <1>20, <1>21, <1>22, <1>23, <1>24, <1>25, <1>26, <1>27, <1>28, <1>29, <1>30, <1>31, <1>32, <1>33, <1>34, <1>35, <1>36 DEF Next, Begin, HostStep, ThreadStep

LEMMA CoreStep == Core /\ [Next]_vars => Core'
<1> SUFFICES ASSUME Core, [Next]_vars PROVE Core'
  OBVIOUS
<1> USE BoundAssumption DEF Goto, BeginClose, ShowFails, Closed, Displace, ThreadAt, call, fluent, classic,
      Core, Values, Halves, Runspace, Closing, Flag, Room, NoStrays, GoneAtExit,
      InClose, OnScreen, IsSilent, Top, IsCompleted, Alive, ClassicUp
<1>1. CASE Show
  BY <1>1 DEF Show
<1>2. CASE OpenFails
  <2>1. CASE sessions' = sessions
    BY <1>2, <2>1 DEF OpenFails
  <2>2. CASE sessions' = <<>>
    BY <1>2, <2>2 DEF OpenFails
  <2> QED
    BY <1>2, <2>1, <2>2 DEF OpenFails
<1>3. CASE CloseProgress
  BY <1>3 DEF CloseProgress
<1>4. CASE Prompt
  BY <1>4 DEF Prompt
<1>5. CASE CloseSession
  BY <1>5 DEF CloseSession
<1>6. CASE FluentOpens
  BY <1>6 DEF FluentOpens
<1>7. CASE FluentRefused
  BY <1>7 DEF FluentRefused
<1>8. CASE FluentUpdates
  BY <1>8 DEF FluentUpdates
<1>9. CASE FluentVisible
  BY <1>9 DEF FluentVisible
<1>10. CASE ClassicStarts
  <2>1. Values'
    BY <1>10 DEF ClassicStarts
  <2>2. Halves'
    BY <1>10 DEF ClassicStarts
  <2>3. Runspace'
    BY <1>10 DEF ClassicStarts
  <2>4. Closing'
    BY <1>10 DEF ClassicStarts
  <2>5. Flag'
    BY <1>10 DEF ClassicStarts
  <2>6. Room'
    BY <1>10 DEF ClassicStarts
  <2>7. NoStrays'
    BY <1>10 DEF ClassicStarts
  <2>8. GoneAtExit'
    BY <1>10 DEF ClassicStarts
  <2> QED
    BY <2>1, <2>2, <2>3, <2>4, <2>5, <2>6, <2>7, <2>8
<1>11. CASE ClassicHasNoXaml
  BY <1>11 DEF ClassicHasNoXaml
<1>12. CASE ClassicIsUp
  BY <1>12 DEF ClassicIsUp
<1>13. CASE ClassicIsNotUp
  BY <1>13 DEF ClassicIsNotUp
<1>14. CASE ClassicUpdates
  BY <1>14 DEF ClassicUpdates
<1>15. CASE ClassicLost
  BY <1>15 DEF ClassicLost
<1>16. CASE Register
  BY <1>16 DEF Register
<1>17. CASE NothingToClose
  BY <1>17 DEF NothingToClose
<1>18. CASE FluentCloses
  BY <1>18 DEF FluentCloses
<1>19. CASE ClassicCloses
  <2>1. Values'
    BY <1>19 DEF ClassicCloses
  <2>2. Halves'
    BY <1>19 DEF ClassicCloses
  <2>3. Runspace'
    BY <1>19 DEF ClassicCloses
  <2>4. Closing'
    BY <1>19 DEF ClassicCloses
  <2>5. Flag'
    BY <1>19 DEF ClassicCloses
  <2>6. Room'
    BY <1>19 DEF ClassicCloses
  <2>7. NoStrays'
    BY <1>19 DEF ClassicCloses
  <2>8. GoneAtExit'
    BY <1>19 DEF ClassicCloses
  <2> QED
    BY <2>1, <2>2, <2>3, <2>4, <2>5, <2>6, <2>7, <2>8
<1>20. CASE ClassicClosesWindow
  BY <1>20 DEF ClassicClosesWindow
<1>21. CASE ClassicEnded
  BY <1>21 DEF ClassicEnded
<1>22. CASE ClassicDisposes
  BY <1>22 DEF ClassicDisposes
<1>23. CASE ClassicEndThrows
  BY <1>23 DEF ClassicEndThrows
<1>24. CASE Dialog
  <2>1. Values'
    BY <1>24 DEF Dialog
  <2>2. Halves'
    BY <1>24 DEF Dialog
  <2>3. Runspace'
    BY <1>24 DEF Dialog
  <2>4. Closing'
    BY <1>24 DEF Dialog
  <2>5. Flag'
    BY <1>24 DEF Dialog
  <2>6. Room'
    BY <1>24 DEF Dialog
  <2>7. NoStrays'
    BY <1>24 DEF Dialog
  <2>8. GoneAtExit'
    BY <1>24 DEF Dialog
  <2> QED
    BY <2>1, <2>2, <2>3, <2>4, <2>5, <2>6, <2>7, <2>8
<1>25. CASE Pop
  BY <1>25 DEF Pop
<1>26. CASE ExitADTInvocation
  BY <1>26 DEF ExitADTInvocation
<1>27. CASE Leave
  BY <1>27 DEF Leave
<1>28. CASE LoadsWindow
  BY <1>28 DEF LoadsWindow
<1>29. CASE ShowsWindow
  BY <1>29 DEF ShowsWindow
<1>30. CASE ThreadFails
  BY <1>30 DEF ThreadFails
<1>31. CASE ThreadEnds
  BY <1>31 DEF ThreadEnds
<1>32. CASE UserCloses
  BY <1>32 DEF UserCloses
<1>33. CASE UserClosesStray
  BY <1>33 DEF UserClosesStray
<1>34. CASE NewHost
  BY <1>34 DEF NewHost
<1>35. ASSUME NEW mode \in Mode, NEW console \in BOOLEAN, OpenSession(mode, console) PROVE Core'
  BY <1>35 DEF OpenSession
<1>36. CASE UNCHANGED vars
  BY <1>36 DEF vars
<1> QED
  BY <1>1, <1>2, <1>3, <1>4, <1>5, <1>6, <1>7, <1>8, <1>9, <1>10, <1>11, <1>12, <1>13, <1>14, <1>15, <1>16, <1>17, <1>18,
     <1>19, <1>20, <1>21, <1>22, <1>23, <1>24, <1>25, <1>26, <1>27, <1>28, <1>29, <1>30, <1>31, <1>32, <1>33, <1>34, <1>35, <1>36 DEF Next, Begin, HostStep, ThreadStep

LEMMA Inductive == Spec => []IInv
<1>1. IInv /\ [Next]_vars => IInv'
  BY BooleansStep, CoreStep DEF IInv
<1> QED
  BY InvInit, <1>1, PTL DEF Spec

-----------------------------------------------------------------------------
\* Every variable keeps its type, whatever the calls, failures and restarts.
THEOREM TypeCorrect == Spec => []TypeOK
<1>1. IInv => TypeOK
  BY Types DEF IInv, Core
<1> QED
  BY Inductive, <1>1, PTL

\* No progress window is left on the screen that the flag
\* ($Dialogs.<style>.ProgressWindow.Running) does not know of.
THEOREM NothingLeftBehind == Spec => []NoOrphan
<1>1. IInv => NoOrphan
  BY DEF IInv, Core, Flag, NoOrphan
<1> QED
  BY Inductive, <1>1, PTL

\* Only a prompt shown without a session makes AdtApplication forget a
\* progress window.
THEOREM WindowsTracked == Spec => []NoStrays
<1>1. IInv => NoStrays
  BY DEF IInv, Core
<1> QED
  BY Inductive, <1>1, PTL

\* Between calls the flag is set only if the window is there, or one of the
\* named outside events has taken it away.
THEOREM FlagTells == Spec => []RunningMeansOpen
<1>1. IInv => RunningMeansOpen
  <2> SUFFICES ASSUME IInv, pc = "idle", running
               PROVE  IF style = "Fluent" THEN (current = "progress" /\ (visible \/ userClosed)) \/ bare
                                          ELSE thread \in {"loaded", "shown", "failing", "failed"}
    BY DEF RunningMeansOpen
  <2>1. CASE style = "Fluent"
    BY <2>1 DEF IInv, Core, Flag
  <2>2. CASE style = "Classic"
    BY <2>2 DEF IInv, Core, Flag, Runspace
  <2> QED
    BY <2>1, <2>2 DEF IInv, Core, Values
<1> QED
  BY Inductive, <1>1, PTL

\* The end of a deployment, Close-ADTSession's or Exit-ADTInvocation's, closes
\* the progress dialog, whatever the modes of the nested sessions.
THEOREM GoneWhenDone == Spec => []GoneAtExit
<1>1. IInv => GoneAtExit
  BY DEF IInv, Core
<1> QED
  BY Inductive, <1>1, PTL

-----------------------------------------------------------------------------
\* Calls end: the measure that falls with every step of a call.
LEMMA ReturnsNearer ==
    ASSUME TypeOK, pc \in {"close", "closing", "ending", "endInvoke"}, pc' = after \/ pc' = "idle"
    PROVE  Nearer
BY DEF TypeOK, Nearer, Distance, Remaining

LEMMA CallStepIsNearer ==
    ASSUME TypeOK, HostStep
    PROVE  Nearer
<1>1. CASE FluentOpens \/ ClassicStarts \/ FluentUpdates \/ ClassicUpdates
  BY <1>1 DEF FluentOpens, ClassicStarts, FluentUpdates, ClassicUpdates, Goto, Nearer, Distance, Remaining
<1>2. CASE FluentRefused \/ ClassicHasNoXaml \/ ClassicLost \/ ClassicIsNotUp
  BY <1>2 DEF FluentRefused, ClassicHasNoXaml, ClassicLost, ClassicIsNotUp, ShowFails, Goto,
        Nearer, Distance, Remaining
<1>3. CASE FluentVisible \/ ClassicIsUp \/ Register
  BY <1>3 DEF FluentVisible, ClassicIsUp, Register, Goto, Nearer, Distance, Remaining
<1>4. CASE NothingToClose \/ FluentCloses \/ ClassicDisposes
  BY <1>4, ReturnsNearer DEF NothingToClose, FluentCloses, ClassicDisposes, Closed, Goto
<1>5. CASE ClassicEndThrows
  BY <1>5, ReturnsNearer DEF ClassicEndThrows
<1>6. CASE ClassicCloses \/ ClassicClosesWindow \/ ClassicEnded
  BY <1>6 DEF ClassicCloses, ClassicClosesWindow, ClassicEnded, Goto, TypeOK,
        Nearer, Distance, Remaining
<1>7. CASE Dialog \/ Leave
  BY <1>7 DEF Dialog, Leave, Goto, Nearer, Distance, Remaining
<1>8. CASE Pop
  BY <1>8 DEF Pop, Nearer, Distance, Remaining
<1>9. CASE ExitADTInvocation
  BY <1>9 DEF ExitADTInvocation, BeginClose, Goto, Nearer, Distance, Remaining
<1> QED
  BY <1>1, <1>2, <1>3, <1>4, <1>5, <1>6, <1>7, <1>8, <1>9 DEF HostStep

LEMMA OtherStepsLeaveTheCall ==
    ASSUME TypeOK, [Next]_vars, ~HostStep, pc # "idle"
    PROVE  Nearer \/ UNCHANGED <<pc, after>>
<1>1. CASE Begin
  BY <1>1 DEF Begin, Show, CloseProgress, Prompt, OpenFails, CloseSession, OpenSession,
        BeginClose, Goto
<1>2. CASE ThreadStep
  BY <1>2 DEF ThreadStep, LoadsWindow, ShowsWindow, ThreadFails, ThreadEnds, ThreadAt, call
<1>3. CASE UserCloses \/ UserClosesStray
  BY <1>3 DEF UserCloses, UserClosesStray, call
<1>4. CASE NewHost
  <2>1. pc' = "idle" /\ after' = "idle"
    BY <1>4 DEF NewHost
  <2>2. Distance(pc', after') = 0
    BY <2>1 DEF Distance, Remaining
  <2>3. Distance(pc, after) > 0
    BY DEF TypeOK, Distance, Remaining
  <2> QED
    BY <2>2, <2>3 DEF Nearer
<1>5. CASE UNCHANGED vars
  BY <1>5 DEF vars, call
<1> QED
  BY <1>1, <1>2, <1>3, <1>4, <1>5 DEF Next

\* No call goes on for ever, in either style, for any depth of sessions and
\* whenever the runspace fails: the distance to its end falls with each of its
\* steps, and nobody else raises it.  A call that does not end is one that
\* waits, which is what CallReturns excludes but for three places.
THEOREM CallsComeToAnEnd == Spec => CallsAdvance
<1>1. ASSUME IInv, [Next]_vars
      PROVE  [pc # "idle" => /\ HostStep => Nearer
                             /\ Nearer \/ UNCHANGED <<pc, after>>]_vars
  <2>1. TypeOK
    BY <1>1, Types DEF IInv, Core
  <2>2. HostStep => Nearer
    BY <2>1, CallStepIsNearer
  <2> QED
    BY <1>1, <2>1, <2>2, OtherStepsLeaveTheCall
<1> QED
  BY <1>1, Inductive, PTL DEF Spec, CallsAdvance
==============================================================================
