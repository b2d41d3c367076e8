--------------------- MODULE InstallationWelcome_proofs ---------------------
(***************************************************************************)
(* Theorems about Show-ADTInstallationWelcome: users get the deferrals and *)
(* the days they are promised, no more and no fewer, a deployment that was *)
(* told to stop does, and installs on closed applications.  Each theorem   *)
(* names what it needs of the calls, for every number of deferrals and     *)
(* days, and whatever countdowns, timeouts, kills and clocks come with it. *)
(***************************************************************************)
EXTENDS InstallationWelcome, TLAPS

\* The deployments of the install name that count deferrals grant the same
\* number; others - an uninstallation - may come in between.
Limited(n) ==
    \A q \in Parameters : q.times # 0 => (q.allowDefer \/ q.deferClose) /\ q.times = n

\* Every one of them does.
Uniform(n) == \A q \in Parameters : (q.allowDefer \/ q.deferClose) /\ q.times = n

LEMMA ParameterFields ==
    ASSUME NEW q \in Parameters
    PROVE  /\ q.allowDefer \in BOOLEAN /\ q.deferClose \in BOOLEAN
           /\ q.times \in Nat /\ q.days \in Nat /\ q.deadline \in Nat \cup {None}
           /\ q.silent \in BOOLEAN /\ q.checkDisk \in BOOLEAN
BY ParametersAssumption DEF None

LEMMA InitHistory == Init => HistoryInv
<1> SUFFICES ASSUME Init PROVE HistoryInv
  OBVIOUS
<1>1. TypeOK
  BY DEF Init, TypeOK, NoHistory, None, Labels, Results
<1>2. ~InCall
  BY Zenon DEF Init, InCall
<1>3. history.times = None /\ used = 0
  BY DEF Init, NoHistory
<1>4. QED
  BY <1>1, <1>2, <1>3 DEF HistoryInv

(* Outside a call the registry alone counts.                                 *)
LEMMA OutsideCall ==
    ASSUME HistoryInv, TypeOK', ~InCall', UNCHANGED <<history, used>>
    PROVE  HistoryInv'
BY DEF HistoryInv

(* Within one, nothing changes but the control.                              *)
LEMMA WithinCall ==
    ASSUME HistoryInv, TypeOK', InCall' => InCall,
           UNCHANGED <<p, history, used, deferTimes, allowDefer, deadline>>
    PROVE  HistoryInv'
BY DEF HistoryInv

(* Using one of the deferrals a call still had is within its limit.          *)
LEMMA Spend ==
    ASSUME NEW before \in Int, NEW after \in Int, NEW left \in Int, NEW n \in Int,
           after <= before + 1, before + left + 1 <= n
    PROVE  after + left <= n
OBVIOUS

(* A deferral takes from the registry what it uses.                          *)
LEMMA StoredDeferral ==
    ASSUME NEW n \in Nat \ {0}, Limited(n), HistoryInv, pc = "prompt", sessionOpen,
           allowDefer \/ deadline # None \/ deferTimes >= 0,
           StoreDeferral, StopScript("loop"), NEW r \in Results, Returned(r), UNCHANGED running
    PROVE  HistoryInv'
<1>1. InCall /\ TypeOK
  BY Zenon DEF InCall, HistoryInv
<1>2. deferTimes \in Nat
  BY <1>1 DEF HistoryInv, TypeOK, None
<1>3. p \in Parameters
  BY <1>1 DEF TypeOK
<1>4. used \in Nat /\ used' \in Nat /\ used' <= used + 1 /\ (p.times = 0 => used' = used)
  BY <1>1 DEF TypeOK, StoreDeferral
<1>5. firstDeferred' \in Nat \cup {None}
  BY <1>1 DEF TypeOK, StoreDeferral
<1>6. history' \in [times : Nat \cup {None}, deadline : Nat \cup {None}]
      /\ history'.times = deferTimes
  BY <1>1, <1>2 DEF TypeOK, StoreDeferral
<1>7. ~InCall' /\ sessionOpen' \in BOOLEAN /\ stopped' \in BOOLEAN
  BY Zenon DEF StopScript, InCall
<1>8. pc' \in Labels
  BY DEF StopScript, Labels
<1>9. TypeOK'
  BY <1>1, <1>4, <1>5, <1>6, <1>7, <1>8 DEF Returned, TypeOK
<1>10. ASSUME NEW q \in Parameters, q.times # 0
       PROVE  used' + deferTimes <= q.times
  <2>1. q.times = n
    BY <1>10 DEF Limited
  <2>2. CASE p.times # 0
    <3>1. used + deferTimes + 1 <= q.times
      BY <1>1, <1>10, <2>2, Zenon DEF HistoryInv
    <3>2. used + deferTimes + 1 <= n
      BY <2>1, <3>1
    <3>3. n \in Int /\ used \in Int /\ used' \in Int /\ deferTimes \in Int /\ used' <= used + 1
      BY <1>2, <1>4
    <3>4. used' + deferTimes <= n
      BY <3>2, <3>3, Spend, Zenon
    <3>5. QED
      BY <2>1, <3>4
  <2>3. CASE p.times = 0
    <3>1. deferTimes = 0 /\ used' = used
      BY <1>1, <1>4, <2>3, Zenon DEF HistoryInv
    <3>2. used <= q.times
      BY <1>1, <1>4, <1>10, <2>1 DEF HistoryInv, TypeOK, None
    <3>3. QED
      BY <1>4, <2>1, <3>1, <3>2
  <2>4. QED
    BY <2>2, <2>3
<1>11. QED
  BY <1>2, <1>6, <1>7, <1>9, <1>10 DEF HistoryInv, None

(* A prompt that stops the script without storing anything.                  *)
LEMMA StoppedOnly ==
    ASSUME HistoryInv, StopScript("loop"), NEW r \in Results, Returned(r),
           UNCHANGED <<running, history, firstDeferred, used>>
    PROVE  HistoryInv'
<1>1. ~InCall' /\ sessionOpen' \in BOOLEAN /\ stopped' \in BOOLEAN
  BY Zenon DEF StopScript, InCall
<1>2. pc' \in Labels
  BY DEF StopScript, Labels
<1>3. TypeOK'
  BY <1>1, <1>2 DEF HistoryInv, TypeOK, Returned
<1>4. QED
  BY <1>1, <1>3, OutsideCall

(* What a prompt may come back with, with or without the user.               *)
LEMMA PromptHistory ==
    ASSUME NEW n \in Nat \ {0}, Limited(n), HistoryInv, pc = "prompt", NEW r, Outcome(r),
           r = "Defer" => ShowDefer
    PROVE  HistoryInv'
<1>1. CASE Continued
  <2>1. TypeOK'
    BY <1>1 DEF Continued, Returned, HistoryInv, TypeOK, Labels, Results
  <2>2. InCall' => InCall
    BY <1>1, Zenon DEF Continued, InCall
  <2>3. QED
    BY <1>1, <2>1, <2>2, WithinCall DEF Continued, Returned
<1>2. CASE CloseProcesses
  <2>1. TypeOK'
    BY <1>2 DEF CloseProcesses, Returned, HistoryInv, TypeOK, Labels, Results
  <2>2. InCall' => InCall
    BY <1>2, Zenon DEF CloseProcesses, InCall
  <2>3. QED
    BY <1>2, <2>1, <2>2, WithinCall DEF CloseProcesses, Returned
<1>3. CASE Deferred /\ ShowDefer
  <2>1. CASE sessionOpen
    BY <1>3, <2>1, StoredDeferral DEF Deferred, ShowDefer, Results
  <2>2. CASE ~sessionOpen
    BY <1>3, <2>2, StoppedOnly DEF Deferred, Results
  <2>3. QED
    BY <2>1, <2>2
<1>4. CASE TimedOut
  <2>1. CASE sessionOpen /\ (deferTimes >= 0 \/ deadline # None)
    BY <1>4, <2>1, StoredDeferral DEF TimedOut, Results
  <2>2. CASE ~(sessionOpen /\ (deferTimes >= 0 \/ deadline # None))
    BY <1>4, <2>2, StoppedOnly DEF TimedOut, Results
  <2>3. QED
    BY <2>1, <2>2
<1>5. QED
  BY <1>1, <1>2, <1>3, <1>4 DEF Outcome

LEMMA NextHistory ==
    ASSUME NEW n \in Nat \ {0}, Limited(n), HistoryInv, [Next]_vars
    PROVE  HistoryInv'
<1>t. TypeOK /\ p \in Parameters
  BY DEF HistoryInv, TypeOK
<1>1. CASE UNCHANGED vars
  <2>1. TypeOK'
    BY <1>t, <1>1 DEF vars, call, TypeOK
  <2>2. QED
    BY <1>1, <2>1, WithinCall DEF vars, call, InCall
<1>2. ASSUME NEW q \in Parameters, Start(q)
      PROVE  HistoryInv'
  <2>1. TypeOK'
    BY <1>t, <1>2, ParameterFields DEF Start, TypeOK, Labels, Results
  <2>2. ~InCall'
    BY <1>2 DEF Start, InCall
  <2>3. QED
    BY <1>2, <2>1, <2>2, OutsideCall DEF Start
<1>3. CASE CheckDisk
  <2>1. pc' \in {"evaluate", "idle"} /\ sessionOpen' \in BOOLEAN /\ stopped' \in BOOLEAN
    BY <1>t, <1>3, Zenon DEF CheckDisk, StopScript, TypeOK
  <2>2. TypeOK'
    BY <1>t, <1>3, <2>1 DEF CheckDisk, TypeOK, Labels
  <2>3. QED
    BY <1>3, <2>1, <2>2, OutsideCall DEF CheckDisk, InCall
<1>4. CASE Evaluate
  <2>1. p.times # 0 => Asked /\ p.times = n
    BY <1>t DEF Limited, Asked
  <2>2. /\ p.times # 0 => TimesLeft = (IF history.times # None THEN history.times ELSE n) - 1
        /\ p.times = 0 => TimesLeft = 0
    BY <2>1 DEF TimesLeft
  <2>3. history.times \in Nat \cup {None} /\ history.deadline \in Nat \cup {None} /\ used \in Nat
    BY <1>t DEF TypeOK
  <2>4. /\ TimesLeft \in Nat \cup {None}
        /\ p.times # 0 => used + TimesLeft + 1 <= n
    BY <1>t, <2>1, <2>2, <2>3 DEF HistoryInv, None
  <2>5. p.days \in Nat /\ p.deadline \in Nat \cup {None} /\ DaysDeadline \in Nat \cup {None}
    BY <1>t, <2>3, ParameterFields DEF DaysDeadline, TypeOK, None
  <2>6. /\ deferTimes' = TimesLeft
        /\ deadline' \in Nat \cup {None}
        /\ allowDefer' \in BOOLEAN
        /\ (allowDefer' \/ deadline' # None) => TimesLeft >= 0
    <3>1. deadline' \in Nat \cup {None}
      BY <1>4, <2>5 DEF Evaluate
    <3>2. allowDefer' \in BOOLEAN
      BY <1>4 DEF Evaluate
    <3>3. CASE TimesLeft < 0
      <4>1. p.times # 0
        BY <2>2, <3>3
      <4>2. QED
        BY <1>4, <3>3, <4>1 DEF Evaluate
    <3>4. CASE TimesLeft >= 0
      BY <1>4, <3>1, <3>2, <3>4 DEF Evaluate
    <3>5. QED
      BY <2>4, <3>3, <3>4 DEF None
  <2>7. TypeOK'
    BY <1>t, <1>4, <2>4, <2>6 DEF Evaluate, TypeOK, Labels
  <2>8. \A q \in Parameters : q.times # 0 => q.times = n
    BY DEF Limited
  <2>9. UNCHANGED <<p, history, used>>
    BY <1>4 DEF Evaluate
  <2>10. QED
    BY <2>2, <2>4, <2>6, <2>7, <2>8, <2>9 DEF HistoryInv
<1>5. CASE LoopLeave
  <2>1. TypeOK' /\ ~InCall'
    BY <1>t, <1>5 DEF LoopLeave, call, TypeOK, Labels, InCall
  <2>2. QED
    BY <1>5, <2>1, OutsideCall DEF LoopLeave
<1>6. CASE LoopPrompt
  <2>1. TypeOK'
    BY <1>t, <1>6 DEF LoopPrompt, TypeOK, Labels
  <2>2. InCall' => InCall
    BY <1>6 DEF LoopPrompt, InCall
  <2>3. QED
    BY <1>6, <2>1, <2>2, WithinCall DEF LoopPrompt
<1>7. CASE CloseSilently
  <2>1. running' \in BOOLEAN
    BY <1>t, <1>7, Zenon DEF CloseSilently, TypeOK
  <2>2. TypeOK' /\ ~InCall'
    BY <1>t, <1>7, <2>1 DEF CloseSilently, call, TypeOK, Labels, InCall
  <2>3. QED
    BY <1>7, <2>2, OutsideCall DEF CloseSilently
<1>8. CASE UserClicks
  <2>1. PICK r \in Clicks : Outcome(r)
    BY <1>8 DEF UserClicks
  <2>2. r = "Defer" => ShowDefer
    BY DEF Clicks
  <2>3. QED
    BY <1>8, <2>1, <2>2, PromptHistory DEF UserClicks
<1>9. CASE DialogExpires
  <2>1. Outcome("Timeout")
    BY <1>9 DEF DialogExpires, Outcome
  <2>2. QED
    BY <1>9, <2>1, PromptHistory DEF DialogExpires
<1>10. CASE CountdownElapses
  <2>1. CountdownResult # "Defer"
    BY DEF CountdownResult
  <2>2. QED
    BY <1>10, <2>1, PromptHistory DEF CountdownElapses
<1>11. CASE FormDisposed
  <2>1. TypeOK'
    BY <1>t, <1>11 DEF FormDisposed, Returned, TypeOK, Labels, Results
  <2>2. InCall' => InCall
    BY <1>11, Zenon DEF FormDisposed, InCall
  <2>3. QED
    BY <1>11, <2>1, <2>2, WithinCall DEF FormDisposed, Returned
<1>12. CASE StopProcesses
  <2>1. running' \in BOOLEAN
    BY <1>t, <1>12, Zenon DEF StopProcesses, TypeOK
  <2>2. TypeOK'
    BY <1>t, <1>12, <2>1 DEF StopProcesses, call, TypeOK, Labels
  <2>3. InCall' => InCall
    BY <1>12 DEF StopProcesses, call, InCall
  <2>4. QED
    BY <1>12, <2>2, <2>3, WithinCall DEF StopProcesses, call
<1>13. CASE Finish
  <2>1. ~InCall' /\ sessionOpen' \in BOOLEAN
    BY <1>13, Zenon DEF Finish, InCall
  <2>2. CASE UNCHANGED <<history, firstDeferred, used>>
    <3>1. TypeOK'
      BY <1>t, <1>13, <2>1, <2>2 DEF Finish, TypeOK, Labels
    <3>2. QED
      BY <2>1, <2>2, <3>1, OutsideCall
  <2>3. CASE history' = NoHistory /\ firstDeferred' = None /\ used' = 0
    <3>1. TypeOK'
      BY <1>t, <1>13, <2>1, <2>3 DEF Finish, TypeOK, Labels, NoHistory, None
    <3>2. QED
      BY <2>1, <2>3, <3>1 DEF HistoryInv, NoHistory
  <2>4. QED
    BY <1>13, <2>2, <2>3 DEF Finish
<1>14. CASE Killed
  <2>1. ~InCall' /\ sessionOpen' \in BOOLEAN
    BY <1>14, Zenon DEF Killed, InCall
  <2>2. TypeOK'
    BY <1>t, <1>14, <2>1 DEF Killed, TypeOK, Labels
  <2>3. QED
    BY <1>14, <2>1, <2>2, OutsideCall DEF Killed
<1>15. CASE Tick
  <2>1. TypeOK' /\ (InCall' => InCall)
    BY <1>t, <1>15 DEF Tick, call, TypeOK, InCall
  <2>2. QED
    BY <1>15, <2>1, WithinCall DEF Tick, call
<1>16. CASE ApplicationsChange
  <2>1. TypeOK' /\ (InCall' => InCall)
    BY <1>t, <1>16 DEF ApplicationsChange, call, TypeOK, InCall
  <2>2. QED
    BY <1>16, <2>1, WithinCall DEF ApplicationsChange, call
<1>17. QED
  BY <1>1, <1>2, <1>3, <1>4, <1>5, <1>6, <1>7, <1>8, <1>9, <1>10, <1>11, <1>12, <1>13,
     <1>14, <1>15, <1>16 DEF Next

(* No user is offered one deferral more than DeferTimes, whatever deadlines, *)
(* countdowns and dialog style the deployment uses, and whatever deployments *)
(* that count no deferrals share the install name with it.                   *)
THEOREM DeferralsAreLimited ==
    ASSUME NEW n \in Nat \ {0}, Limited(n)
    PROVE  Spec => []NeverTooOften
<1>1. HistoryInv => NeverTooOften
  <2>1. SUFFICES ASSUME HistoryInv, pc = "prompt", sessionOpen, allowDefer, p.times # 0
                 PROVE  used < p.times
    BY DEF NeverTooOften
  <2>2. InCall /\ TypeOK
    BY <2>1, Zenon DEF InCall, HistoryInv
  <2>3. p \in Parameters /\ used \in Nat /\ deferTimes \in Int
    BY <2>2 DEF TypeOK, None
  <2>4. deferTimes >= 0 /\ used + deferTimes + 1 <= p.times
    BY <2>1, <2>2, <2>3 DEF HistoryInv
  <2>5. p.times \in Nat
    BY <2>3, ParameterFields
  <2>6. QED
    BY <2>3, <2>4, <2>5
<1>2. HistoryInv /\ [Next]_vars => HistoryInv'
  BY NextHistory
<1>3. QED
  BY InitHistory, <1>1, <1>2, PTL DEF Spec

(* What HistoryInv says of the registry and of the call holds throughout.    *)
THEOREM HistoryIsKept ==
    ASSUME NEW n \in Nat \ {0}, Limited(n)
    PROVE  Spec => []HistoryInv
<1>1. HistoryInv /\ [Next]_vars => HistoryInv'
  BY NextHistory
<1>2. QED
  BY InitHistory, <1>1, PTL DEF Spec

-----------------------------------------------------------------------------
(* No deferral too few, where no dates come into it.                        *)

\* Only the number limits the deferrals.
CountOnly(n) == Uniform(n) /\ \A q \in Parameters : q.days = 0 /\ q.deadline = None

\* Nothing is counted that was not used.
GrantInv(n) ==
    /\ HistoryInv
    /\ history.times # None => used + history.times >= n
    /\ InCall => /\ used + deferTimes + 1 >= n
                 /\ deferTimes >= 0 => allowDefer
                 /\ deadline = None

(* Leaving the call, or going on with it, as long as nothing is counted.     *)
LEMMA GrantFrame ==
    ASSUME NEW n \in Nat \ {0}, GrantInv(n), HistoryInv',
           UNCHANGED <<history, used>>,
           InCall' => InCall /\ UNCHANGED <<deferTimes, allowDefer, deadline>>
    PROVE  GrantInv(n)'
BY DEF GrantInv

(* A prompt returns: what it stores it has taken from the user's deferrals.  *)
LEMMA GrantPrompt ==
    ASSUME NEW n \in Nat \ {0}, CountOnly(n), GrantInv(n), HistoryInv', pc = "prompt",
           NEW r, Outcome(r), r = "Defer" => ShowDefer
    PROVE  GrantInv(n)'
<1>1. CASE Continued
  <2>1. InCall' => InCall
    BY <1>1, Zenon DEF Continued, InCall
  <2>2. QED
    BY <1>1, <2>1, GrantFrame DEF Continued, Returned
<1>2. CASE CloseProcesses
  <2>1. InCall' => InCall
    BY <1>2, Zenon DEF CloseProcesses, InCall
  <2>2. QED
    BY <1>2, <2>1, GrantFrame DEF CloseProcesses, Returned
<1>3. CASE (Deferred /\ ShowDefer) \/ TimedOut
  <2>1. ~InCall'
    BY <1>3, Zenon DEF Deferred, TimedOut, StopScript, InCall
  <2>2. CASE UNCHANGED <<history, used>>
    BY <2>1, <2>2, GrantFrame
  <2>3. CASE sessionOpen /\ StoreDeferral /\ (ShowDefer \/ deferTimes >= 0 \/ deadline # None)
    <3>1. InCall
      BY <2>3, Zenon DEF InCall
    <3>2. deferTimes \in Int /\ deferTimes >= 0 /\ allowDefer
      BY <2>3, <3>1 DEF GrantInv, HistoryInv, TypeOK, ShowDefer, None
    <3>3. p.times = n
      BY DEF CountOnly, Uniform, GrantInv, HistoryInv, TypeOK
    <3>4. history'.times = deferTimes /\ used' = used + 1
      BY <2>3, <3>2, <3>3 DEF StoreDeferral
    <3>5. used \in Nat /\ used + deferTimes + 1 >= n
      BY <3>1 DEF GrantInv, HistoryInv, TypeOK
    <3>6. QED
      BY <2>1, <3>2, <3>4, <3>5 DEF GrantInv
  <2>4. QED
    BY <1>3, <2>2, <2>3 DEF Deferred, TimedOut
<1>4. QED
  BY <1>1, <1>2, <1>3 DEF Outcome

LEMMA NextGrant ==
    ASSUME NEW n \in Nat \ {0}, CountOnly(n), GrantInv(n), [Next]_vars
    PROVE  GrantInv(n)'
<1>h. HistoryInv' /\ HistoryInv /\ TypeOK
  <2>1. Limited(n)
    BY DEF CountOnly, Uniform, Limited
  <2>2. QED
    BY <2>1, NextHistory DEF GrantInv, HistoryInv
<1>1. CASE Evaluate
  <2>1. Asked /\ p.times = n /\ p.days = 0 /\ p.deadline = None
    BY <1>h DEF CountOnly, Uniform, Asked, TypeOK
  <2>2. TimesLeft = (IF history.times # None THEN history.times ELSE n) - 1
    BY <2>1 DEF TimesLeft
  <2>3. history.times \in Nat \cup {None} /\ used \in Nat
    BY <1>h DEF TypeOK
  <2>4. TimesLeft \in Int /\ used + TimesLeft + 1 >= n
    BY <1>h, <2>2, <2>3 DEF GrantInv, HistoryInv, None
  <2>5. /\ deferTimes' = TimesLeft /\ deadline' = None /\ (TimesLeft >= 0 => allowDefer')
        /\ UNCHANGED <<history, used>>
    <3>1. deadline' = None /\ deferTimes' = TimesLeft /\ UNCHANGED <<history, used>>
      BY <1>1, <2>1 DEF Evaluate
    <3>2. ASSUME TimesLeft >= 0 PROVE allowDefer'
      <4>1. ~(TimesLeft < 0)
        BY <2>4, <3>2
      <4>2. QED
        BY <1>1, <2>1, <4>1, Zenon DEF Evaluate
    <3>3. QED
      BY <3>1, <3>2
  <2>6. QED
    BY <1>h, <2>4, <2>5 DEF GrantInv
<1>2. CASE UserClicks
  <2>1. PICK r \in Clicks : Outcome(r)
    BY <1>2 DEF UserClicks
  <2>2. r = "Defer" => ShowDefer
    BY DEF Clicks
  <2>3. QED
    BY <1>h, <1>2, <2>1, <2>2, GrantPrompt DEF UserClicks
<1>3. CASE DialogExpires
  <2>1. Outcome("Timeout")
    BY <1>3 DEF DialogExpires, Outcome
  <2>2. QED
    BY <1>h, <1>3, <2>1, GrantPrompt DEF DialogExpires
<1>4. CASE CountdownElapses
  <2>1. CountdownResult # "Defer"
    BY DEF CountdownResult
  <2>2. QED
    BY <1>h, <1>4, <2>1, GrantPrompt DEF CountdownElapses
<1>5. CASE Finish
  <2>1. ~InCall'
    BY <1>5, Zenon DEF Finish, InCall
  <2>2. CASE UNCHANGED <<history, used>>
    BY <1>h, <2>1, <2>2, GrantFrame
  <2>3. CASE history' = NoHistory
    BY <1>h, <2>1, <2>3 DEF GrantInv, NoHistory
  <2>4. QED
    BY <1>5, <2>2, <2>3 DEF Finish
<1>6. CASE UNCHANGED vars
  BY <1>h, <1>6, GrantFrame DEF vars, call, InCall
<1>7. ASSUME NEW q \in Parameters, Start(q)
      PROVE  GrantInv(n)'
  <2>1. ~InCall'
    BY <1>7 DEF Start, InCall
  <2>2. QED
    BY <1>h, <1>7, <2>1, GrantFrame DEF Start
<1>8. CASE CheckDisk \/ Killed
  <2>1. ~InCall'
    <3>1. pc' \in {"idle", "evaluate"}
      BY <1>8, Zenon DEF CheckDisk, Killed, StopScript
    <3>2. QED
      BY <3>1 DEF InCall
  <2>2. QED
    BY <1>h, <1>8, <2>1, GrantFrame DEF CheckDisk, Killed
<1>9. CASE LoopLeave \/ CloseSilently
  <2>1. ~InCall'
    BY <1>9 DEF LoopLeave, CloseSilently, InCall
  <2>2. QED
    BY <1>h, <1>9, <2>1, GrantFrame DEF LoopLeave, CloseSilently
<1>10. CASE LoopPrompt \/ FormDisposed
  <2>1. InCall' => InCall
    BY <1>10, Zenon DEF LoopPrompt, FormDisposed, InCall
  <2>2. QED
    BY <1>h, <1>10, <2>1, GrantFrame DEF LoopPrompt, FormDisposed, Returned
<1>11. CASE StopProcesses \/ Tick \/ ApplicationsChange
  <2>1. InCall' => InCall
    BY <1>11, Zenon DEF StopProcesses, Tick, ApplicationsChange, call, InCall
  <2>2. QED
    BY <1>h, <1>11, <2>1, GrantFrame DEF StopProcesses, Tick, ApplicationsChange, call
<1>12. QED
  BY <1>1, <1>2, <1>3, <1>4, <1>5, <1>6, <1>7, <1>8, <1>9, <1>10, <1>11 DEF Next

(* While fewer than DeferTimes deferrals are used, every prompt offers one:  *)
(* neither timeouts nor kills nor closed dialogs cost the user any.          *)
THEOREM DeferralsAreGranted ==
    ASSUME NEW n \in Nat \ {0}, CountOnly(n)
    PROVE  Spec => []AllGranted
<1>1. Init => GrantInv(n)
  <2>1. Init => ~InCall
    BY Zenon DEF Init, InCall
  <2>2. QED
    BY <2>1, InitHistory DEF GrantInv, Init, NoHistory
<1>2. GrantInv(n) /\ [Next]_vars => GrantInv(n)'
  BY NextGrant
<1>3. GrantInv(n) => AllGranted
  <2>1. SUFFICES ASSUME GrantInv(n), pc = "prompt", sessionOpen, used < p.times
                 PROVE  allowDefer
    BY DEF AllGranted
  <2>2. InCall
    BY <2>1, Zenon DEF InCall
  <2>3. p.times = n /\ used \in Nat /\ deferTimes \in Int
    BY <2>1 DEF CountOnly, Uniform, GrantInv, HistoryInv, TypeOK, None
  <2>4. QED
    BY <2>1, <2>2, <2>3 DEF GrantInv
<1>4. QED
  BY <1>1, <1>2, <1>3, PTL DEF Spec

-----------------------------------------------------------------------------
(* The end of the prompts.                                                  *)

(* With the fluent dialogs, which have no Continue button, the function      *)
(* returns to the script only after a look that found nothing running.       *)
THEOREM NothingRunsAtInstall ==
    ASSUME DialogStyle = "Fluent"
    PROVE  Spec => ClosedBeforeInstall
<1>1. ASSUME Next, pc # "install", pc' = "install"
      PROVE  ~running \/ p.silent
  <2>1. CASE LoopLeave
    BY <2>1 DEF LoopLeave, Leaves
  <2>2. CASE CloseSilently
    BY <2>2 DEF CloseSilently
  <2>3. CASE UserClicks
    <3>1. PICK r \in Clicks : Outcome(r)
      BY <2>3 DEF UserClicks
    <3>2. r # "Continue"
      BY DEF Clicks
    <3>3. CloseProcesses \/ Deferred \/ TimedOut
      BY <3>1, <3>2 DEF Outcome
    <3>4. QED
      BY <1>1, <3>3, Zenon DEF CloseProcesses, Deferred, TimedOut, StopScript
  <2>4. CASE CountdownElapses
    BY <2>4 DEF CountdownElapses, ShowCountdown
  <2>5. CASE CheckDisk \/ DialogExpires
    BY <1>1, <2>5, Zenon DEF CheckDisk, DialogExpires, TimedOut, StopScript
  <2>6. CASE Evaluate \/ LoopPrompt \/ FormDisposed \/ StopProcesses \/ Finish \/ Killed
    BY <1>1, <2>6 DEF Evaluate, LoopPrompt, FormDisposed, StopProcesses, Finish, Killed
  <2>7. CASE (\E q \in Parameters : Start(q)) \/ Tick \/ ApplicationsChange
    BY <1>1, <2>7 DEF Start, Tick, ApplicationsChange
  <2>8. QED
    BY <1>1, <2>1, <2>2, <2>3, <2>4, <2>5, <2>6, <2>7 DEF Next
<1>2. [Next]_vars => [pc # "install" /\ pc' = "install" => ~running \/ p.silent]_vars
  BY <1>1
<1>3. QED
  BY <1>2, PTL DEF Spec, ClosedBeforeInstall

\* A deployment that was told to stop is over.
Over == stopped => pc = "idle"

LEMMA PromptOver ==
    ASSUME ~CloseReturns, Over, pc = "prompt", NEW r, Outcome(r)
    PROVE  Over'
<1>1. ~stopped
  BY DEF Over
<1>2. CASE Continued \/ CloseProcesses
  BY <1>1, <1>2 DEF Continued, CloseProcesses, Over
<1>3. CASE Deferred \/ TimedOut
  BY <1>3, Zenon DEF Deferred, TimedOut, StopScript, Over
<1>4. QED
  BY <1>2, <1>3 DEF Outcome

(* Where Close-ADTSession ends the host, a deployment that was deferred, or  *)
(* given up after a timeout, neither prompts again nor installs.             *)
THEOREM DeferredMeansOver ==
    ASSUME ~CloseReturns
    PROVE  Spec => []StopsWhenTold
<1>1. Init => Over
  BY DEF Init, Over
<1>2. ASSUME Over, [Next]_vars
      PROVE  Over'
  <2>1. CASE UNCHANGED vars
    BY <1>2, <2>1 DEF vars, call, Over
  <2>2. CASE CheckDisk
    BY <1>2, <2>2, Zenon DEF CheckDisk, StopScript, Over
  <2>3. CASE UserClicks \/ DialogExpires \/ CountdownElapses
    <3>1. pc = "prompt" /\ \E r : Outcome(r)
      BY <2>3 DEF UserClicks, DialogExpires, CountdownElapses, Outcome
    <3>2. QED
      BY <1>2, <3>1, PromptOver
  <2>4. CASE FormDisposed \/ Evaluate \/ LoopPrompt
    BY <1>2, <2>4 DEF FormDisposed, Evaluate, LoopPrompt, Over
  <2>5. CASE LoopLeave \/ CloseSilently \/ StopProcesses
    BY <1>2, <2>5 DEF LoopLeave, CloseSilently, StopProcesses, call, Over
  <2>6. CASE Finish \/ Killed
    BY <2>6 DEF Finish, Killed, Over
  <2>7. CASE (\E q \in Parameters : Start(q)) \/ Tick \/ ApplicationsChange
    BY <1>2, <2>7 DEF Start, Tick, ApplicationsChange, call, Over
  <2>8. QED
    BY <1>2, <2>1, <2>2, <2>3, <2>4, <2>5, <2>6, <2>7 DEF Next
<1>3. Over => StopsWhenTold
  BY DEF Over, StopsWhenTold
<1>4. QED
  BY <1>1, <1>2, <1>3, PTL DEF Spec

-----------------------------------------------------------------------------
(* The days of DeferDays.                                                   *)

\* Whoever may defer does so within the same d days from the first deferral,
\* or until a deadline that is no later; clocks are compared like with like.
DatesWithin(d) ==
    /\ Offset = 0
    /\ \A q \in Parameters :
          /\ q.days \in {0, d}
          /\ q.deadline <= d
          /\ q.allowDefer \/ q.deferClose => q.days # 0 \/ q.deadline # None

Dates ==
    /\ now \in Nat
    /\ begun \in Nat
    /\ history.deadline \in Nat \cup {None}
    /\ deadline \in Nat \cup {None}
    /\ firstDeferred \in Nat \cup {None}
    /\ p \in Parameters

\* The last instant at which the next attempt may be deferred.
Limit(d) == IF firstDeferred = None THEN d ELSE firstDeferred + d

\* What the registry holds is no later than the limit; what the call in
\* progress would put there is not either, if the user may defer now.
DaysInv(d) ==
    /\ Dates
    /\ firstDeferred # None => history.deadline # None
    /\ history.deadline <= Limit(d)
    /\ InCall =>
          /\ allowDefer => deadline # None /\ begun <= deadline
          /\ deadline <= d \/ deadline <= history.deadline
               \/ (history.deadline = None /\ allowDefer /\ deadline <= begun + d)

(* Only an evaluation and a deferral matter to the dates.                    *)
LEMMA DaysFrame ==
    ASSUME NEW d \in Nat \ {0}, DaysInv(d), now' \in Nat, p' \in Parameters,
           UNCHANGED <<history, begun, firstDeferred>>,
           deadline' \in Nat \cup {None},
           InCall' => InCall /\ UNCHANGED <<allowDefer, deadline>>
    PROVE  DaysInv(d)'
BY DEF DaysInv, Dates, Limit

LEMMA DaysEvaluate ==
    ASSUME NEW d \in Nat \ {0}, DatesWithin(d), DaysInv(d), Evaluate
    PROVE  DaysInv(d)'
<1>1. /\ p \in Parameters /\ now \in Nat /\ history.deadline \in Nat \cup {None}
      /\ firstDeferred \in Nat \cup {None} /\ Utc = now
  BY DEF DaysInv, Dates, DatesWithin, Utc
<1>2. /\ p.days \in {0, d} /\ p.deadline \in Nat \cup {None} /\ p.deadline <= d
      /\ Asked => p.days # 0 \/ p.deadline # None
  BY <1>1, ParameterFields DEF DatesWithin, Asked
<1>3. UNCHANGED <<now, history, p, firstDeferred>> /\ begun' = now
  BY DEF Evaluate
<1>4. DaysDeadline = IF history.deadline # None THEN history.deadline ELSE now + p.days
  BY DEF DaysDeadline
<1>5. DaysDeadline \in Nat
  BY <1>1, <1>2, <1>4 DEF None
<1> DEFINE timesOK == Asked /\ ~(p.times # 0 /\ TimesLeft < 0)
           daysOK == timesOK /\ ~(p.days # 0 /\ now > DaysDeadline)
           deadlineOK == daysOK /\ ~(p.deadline # None /\ now > p.deadline)
<1>6. /\ allowDefer' = deadlineOK
      /\ deadline' = IF daysOK /\ p.deadline # None THEN p.deadline
                     ELSE IF timesOK /\ p.days # 0 THEN DaysDeadline
                     ELSE None
  BY <1>1 DEF Evaluate
<1>7. timesOK => p.days # 0 \/ p.deadline # None
  BY <1>2
<1> HIDE DEF timesOK
<1>8. Dates'
  BY <1>1, <1>2, <1>3, <1>5, <1>6 DEF Dates
<1>9. ASSUME allowDefer'
      PROVE  deadline' # None /\ now <= deadline'
  <2>1. deadlineOK
    BY <1>6, <1>9, Zenon
  <2>2. QED
    BY <1>1, <1>2, <1>5, <1>6, <1>7, <2>1 DEF None
<1>10. \/ deadline' <= d
       \/ deadline' <= history.deadline
       \/ history.deadline = None /\ allowDefer' /\ deadline' <= now + d
  <2>1. CASE deadline' \in {p.deadline, None}
    BY <1>2, <2>1 DEF None
  <2>2. CASE deadline' = DaysDeadline /\ history.deadline # None
    BY <1>1, <1>4, <2>2 DEF None
  <2>3. CASE /\ history.deadline = None /\ timesOK /\ p.days # 0
             /\ ~(daysOK /\ p.deadline # None)
    <3>1. DaysDeadline = now + d
      BY <1>2, <1>4, <2>3
    <3>2. daysOK /\ p.deadline = None
      BY <1>1, <2>3, <3>1
    <3>3. deadline' = now + d
      BY <1>6, <2>3, <3>1, <3>2
    <3>4. allowDefer'
      BY <1>6, <3>2, Zenon
    <3>5. QED
      BY <1>1, <2>3, <3>3, <3>4
  <2>4. QED
    BY <1>6, <2>1, <2>2, <2>3
<1>11. QED
  BY <1>3, <1>8, <1>9, <1>10 DEF DaysInv, Limit

(* A deferral keeps within the limit, and starts the count if it is the      *)
(* first.                                                                    *)
LEMMA DaysStore ==
    ASSUME NEW d \in Nat \ {0}, DaysInv(d), InCall, StoreDeferral, ~InCall',
           UNCHANGED <<now, p, deadline, begun>>
    PROVE  DaysInv(d)'
<1>1. history'.deadline = IF deadline # None THEN deadline ELSE history.deadline
  BY DEF StoreDeferral
<1>2. CASE allowDefer /\ firstDeferred = None
  <2>1. firstDeferred' = begun
    BY <1>2 DEF StoreDeferral
  <2>2. QED
    BY <1>1, <1>2, <2>1 DEF DaysInv, Dates, Limit, None
<1>3. CASE ~(allowDefer /\ firstDeferred = None)
  <2>1. firstDeferred' = firstDeferred
    BY <1>3 DEF StoreDeferral
  <2>2. QED
    BY <1>1, <1>3, <2>1 DEF DaysInv, Dates, Limit, None
<1>4. QED
  BY <1>2, <1>3

LEMMA DaysPrompt ==
    ASSUME NEW d \in Nat \ {0}, DaysInv(d), pc = "prompt", NEW r, Outcome(r)
    PROVE  DaysInv(d)'
<1>t. UNCHANGED <<now, p, deadline, allowDefer, begun>>
  BY DEF Outcome, Continued, CloseProcesses, Deferred, TimedOut, Returned
<1>d. now' \in Nat /\ p' \in Parameters /\ deadline' \in Nat \cup {None}
  BY <1>t DEF DaysInv, Dates
<1>1. CASE Continued \/ CloseProcesses
  <2>1. InCall' => InCall
    BY <1>1, Zenon DEF Continued, CloseProcesses, InCall
  <2>2. UNCHANGED <<history, firstDeferred>>
    BY <1>1 DEF Continued, CloseProcesses
  <2>3. QED
    BY <1>t, <1>d, <2>1, <2>2, DaysFrame
<1>2. CASE Deferred \/ TimedOut
  <2>1. ~InCall'
    BY <1>2, Zenon DEF Deferred, TimedOut, StopScript, InCall
  <2>2. CASE UNCHANGED <<history, firstDeferred>>
    BY <1>t, <1>d, <2>1, <2>2, DaysFrame
  <2>3. CASE sessionOpen /\ StoreDeferral
    <3>1. InCall
      BY <2>3, Zenon DEF InCall
    <3>2. QED
      BY <1>t, <2>1, <2>3, <3>1, DaysStore
  <2>4. QED
    BY <1>2, <2>2, <2>3 DEF Deferred, TimedOut
<1>3. QED
  BY <1>1, <1>2 DEF Outcome

LEMMA NextDays ==
    ASSUME NEW d \in Nat \ {0}, DatesWithin(d), DaysInv(d), [Next]_vars
    PROVE  DaysInv(d)'
<1>d. now \in Nat /\ p \in Parameters /\ deadline \in Nat \cup {None}
  BY DEF DaysInv, Dates
<1>1. CASE UNCHANGED vars
  BY <1>d, <1>1, DaysFrame DEF vars, call, InCall
<1>2. ASSUME NEW q \in Parameters, Start(q)
      PROVE  DaysInv(d)'
  <2>1. ~InCall'
    BY <1>2 DEF Start, InCall
  <2>2. QED
    BY <1>d, <1>2, <2>1, DaysFrame DEF Start
<1>3. CASE CheckDisk \/ Killed
  <2>1. pc' \in {"idle", "evaluate"}
    BY <1>3, Zenon DEF CheckDisk, Killed, StopScript
  <2>2. ~InCall'
    BY <2>1 DEF InCall
  <2>3. QED
    BY <1>d, <1>3, <2>2, DaysFrame DEF CheckDisk, Killed
<1>4. CASE Evaluate
  BY <1>4, DaysEvaluate
<1>5. CASE LoopLeave \/ CloseSilently
  <2>1. ~InCall'
    BY <1>5 DEF LoopLeave, CloseSilently, InCall
  <2>2. QED
    BY <1>d, <1>5, <2>1, DaysFrame DEF LoopLeave, CloseSilently, call
<1>6. CASE LoopPrompt \/ FormDisposed
  <2>1. InCall' => InCall
    BY <1>6, Zenon DEF LoopPrompt, FormDisposed, InCall
  <2>2. QED
    BY <1>d, <1>6, <2>1, DaysFrame DEF LoopPrompt, FormDisposed, Returned
<1>7. CASE UserClicks \/ DialogExpires \/ CountdownElapses
  <2>1. pc = "prompt" /\ \E r : Outcome(r)
    BY <1>7 DEF UserClicks, DialogExpires, CountdownElapses, Outcome
  <2>2. QED
    BY <2>1, DaysPrompt
<1>8. CASE StopProcesses \/ ApplicationsChange
  <2>1. InCall' => InCall
    BY <1>8, Zenon DEF StopProcesses, ApplicationsChange, call, InCall
  <2>2. QED
    BY <1>d, <1>8, <2>1, DaysFrame DEF StopProcesses, ApplicationsChange, call
<1>9. CASE Tick
  <2>1. now' \in Nat
    BY <1>d, <1>9 DEF Tick
  <2>2. QED
    BY <1>d, <1>9, <2>1, DaysFrame DEF Tick, call, InCall
<1>10. CASE Finish
  <2>1. ~InCall'
    BY <1>10, Zenon DEF Finish, InCall
  <2>2. UNCHANGED <<now, p, deadline, begun>>
    BY <1>10 DEF Finish
  <2>3. CASE UNCHANGED <<history, firstDeferred>>
    BY <1>d, <2>1, <2>2, <2>3, DaysFrame
  <2>4. CASE history' = NoHistory /\ firstDeferred' = None
    BY <1>d, <2>1, <2>2, <2>4 DEF DaysInv, Dates, Limit, NoHistory, None
  <2>5. QED
    BY <1>10, <2>3, <2>4 DEF Finish
<1>11. QED
  BY <1>1, <1>2, <1>3, <1>4, <1>5, <1>6, <1>7, <1>8, <1>9, <1>10 DEF Next

(* The days are counted from the first call that was deferred, whatever is   *)
(* called, killed or timed out in between.                                   *)
THEOREM DaysAreCounted ==
    ASSUME NEW d \in Nat \ {0}, DatesWithin(d)
    PROVE  Spec => []DaysHold
<1>1. Init => DaysInv(d)
  <2>1. Init => ~InCall
    BY Zenon DEF Init, InCall
  <2>2. QED
    BY <2>1 DEF Init, DaysInv, Dates, Limit, NoHistory, None
<1>2. DaysInv(d) /\ [Next]_vars => DaysInv(d)'
  BY NextDays
<1>3. DaysInv(d) => DaysHold
  <2>1. SUFFICES ASSUME DaysInv(d), pc = "prompt", sessionOpen, allowDefer, p.days # 0,
                        firstDeferred # None
                 PROVE  begun <= firstDeferred + p.days
    BY DEF DaysHold
  <2>2. InCall
    BY <2>1, Zenon DEF InCall
  <2>3. p.days = d
    BY <2>1 DEF DaysInv, Dates, DatesWithin
  <2>4. QED
    BY <2>1, <2>2, <2>3 DEF DaysInv, Dates, Limit, None
<1>4. QED
  BY <1>1, <1>2, <1>3, PTL DEF Spec
=============================================================================
