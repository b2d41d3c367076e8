------------------------ MODULE WelcomeWindow_proofs ------------------------
(***************************************************************************)
(* Proofs about WelcomeWindow: types, and how far behind the list may be,  *)
(* for any set of applications and any intervals.                          *)
(***************************************************************************)
EXTENDS WelcomeWindow, Integers, TLAPS

(* Arithmetic of rounds and seconds.                                        *)
LEMMA NextRound ==
    ASSUME NEW i \in Nat, NEW g \in Nat
    PROVE  i * (g + 1) = i * g + i /\ i * g \in Nat
BY SMT

LEMMA MoreRounds ==
    ASSUME NEW i \in Nat, NEW g \in Nat, NEW q \in Nat, q <= g
    PROVE  i * q <= i * g
<1>1. PICK d \in Nat : g = q + d
  <2>1. g - q \in Nat /\ g = q + (g - q)
    OBVIOUS
  <2> QED BY <2>1
<1>2. i * g = i * q + i * d
  BY <1>1, SMT
<1>3. i * d \in Nat /\ i * q \in Nat
  BY SMT
<1> QED BY <1>2, <1>3

LEMMA RoundsWithin ==
    ASSUME NEW i \in Nat \ {0}, NEW l \in Nat, NEW g \in Nat, i * g <= l
    PROVE  g <= l \div i
<1> DEFINE q == l \div i
<1>1. q \in Nat /\ l < i * (q + 1)
  BY SMT
<1>2. SUFFICES ASSUME q + 1 <= g PROVE FALSE
  BY <1>1, SMT
<1> HIDE DEF q
<1>3. i * (q + 1) <= i * g
  BY <1>1, <1>2, MoreRounds
<1>4. i * (q + 1) \in Nat /\ i * g \in Nat
  BY <1>1, SMT
<1> QED BY <1>1, <1>3, <1>4

LEMMA ConstantTypes ==
    /\ StaleLookups \in Nat
    /\ Interval \in Nat /\ Interval > 0
    /\ LoopFresh \in Nat /\ WindowFresh \in Nat /\ LoopFresh <= WindowFresh
    /\ Old \in Nat /\ Old > LoopFresh /\ Old > 0
<1>1. StaleLookups \in Nat
  BY TimeAssumption, SMT DEF StaleLookups
<1> QED BY <1>1, TimeAssumption DEF Old

-----------------------------------------------------------------------------
(* Types.                                                                   *)
LEMMA OlderType == ASSUME NEW n \in 0..Old PROVE Older(n) \in 0..Old
BY ConstantTypes DEF Older, Old

LEMMA TypeInit == Init => TypeOK
BY ConstantTypes, TimeAssumption DEF Init, TypeOK

LEMMA TypeStep == TypeOK /\ [Next]_vars => TypeOK'
<1> SUFFICES ASSUME TypeOK, [Next]_vars PROVE TypeOK'
  OBVIOUS
<1> USE ConstantTypes
<1>1. ASSUME NEW a \in App, Start(a) PROVE TypeOK'
  BY <1>1 DEF Start, TypeOK
<1>2. ASSUME NEW a \in App, End(a) PROVE TypeOK'
  <2>1. gone' \in [App -> 0..StaleLookups + 1] /\ task' \in [App -> {"idle", "look", "read", "orphan", "in", "out", "cancelled"}]
    BY <1>2 DEF End, TypeOK
  <2> QED BY <2>1, <1>2 DEF End, TypeOK
<1>3. ASSUME Tick PROVE TypeOK'
  <2>1. age' \in [App -> 0..Old]
    BY <1>3, OlderType DEF Tick, TypeOK
  <2>2. waited' \in 0..Interval
    BY <1>3 DEF Tick, TypeOK
  <2> QED BY <2>1, <2>2, <1>3 DEF Tick, TypeOK
<1>4. ASSUME Open PROVE TypeOK'
  <2>1. ASSUME UpdateAppsToCloseList
        PROVE  listed' \subseteq App /\ previous' \subseteq App /\ age' \in [App -> 0..Old]
    BY <2>1 DEF UpdateAppsToCloseList, Found, TypeOK
  <2>2. CASE Enumerate BY <2>2 DEF Enumerate, TypeOK
  <2>3. CASE MakeFluent BY <2>3, <2>1 DEF MakeFluent, TypeOK
  <2>4. CASE Load
    <3>1. waited' \in 0..Interval /\ loop' \in {"off", "delay", "evaluate", "ended"}
      BY <2>4 DEF Load, TypeOK
    <3> QED BY <3>1, <2>4, <2>1 DEF Load, TypeOK
  <2>5. CASE OpenClassic BY <2>5 DEF OpenClassic, TypeOK
  <2> QED BY <1>4, <2>2, <2>3, <2>4, <2>5 DEF Open
<1>5. ASSUME DelayOver PROVE TypeOK'
  <2>1. task' \in [App -> {"idle", "look", "read", "orphan", "in", "out", "cancelled"}]
    BY <1>5 DEF DelayOver, TypeOK
  <2> QED BY <2>1, <1>5 DEF DelayOver, TypeOK
<1>6. ASSUME Update PROVE TypeOK'
  <2>1. task' \in [App -> {"idle", "look", "read", "orphan", "in", "out", "cancelled"}]
    BY <1>6 DEF Update, TypeOK
  <2>2. listed' \subseteq App /\ previous' \subseteq App
    BY <1>6 DEF Update, Updated, TypeOK
  <2>3. waited' \in 0..Interval /\ loop' \in {"off", "delay", "evaluate", "ended"}
    BY <1>6 DEF Update
  <2> QED BY <2>1, <2>2, <2>3, <1>6 DEF Update, TypeOK
<1>7. ASSUME Ends PROVE TypeOK'
  <2>1. task' \in [App -> {"idle", "look", "read", "orphan", "in", "out", "cancelled"}]
    BY <1>7 DEF Ends, RoundCancelled, DelayCancelled, StopTimer, TypeOK
  <2> QED BY <2>1, <1>7 DEF Ends, RoundCancelled, DelayCancelled, StopTimer, TypeOK
<1>8. ASSUME ClassicTick PROVE TypeOK'
  <2>1. gone' \in [App -> 0..StaleLookups + 1]
    BY <1>8 DEF ClassicTick, TypeOK
  <2>2. listed' \subseteq App /\ previous' \subseteq App /\ waited' \in 0..Interval
    BY <1>8 DEF ClassicTick, TypeOK
  <2>3. window' \in {"open", "closed"}
    BY <1>8 DEF ClassicTick
  <2> QED BY <2>1, <2>2, <2>3, <1>8 DEF ClassicTick, TypeOK
<1>9. ASSUME NEW a \in App, Evaluate(a) PROVE TypeOK'
  <2>1. ASSUME Look(a) PROVE TypeOK'
    <3>1. gone' \in [App -> 0..StaleLookups + 1]
      BY <2>1 DEF Look, CountLookup, TypeOK
    <3>2. task' \in [App -> {"idle", "look", "read", "orphan", "in", "out", "cancelled"}]
      BY <2>1 DEF Look, LookedUp, TypeOK
    <3> QED BY <3>1, <3>2, <2>1 DEF Look, TypeOK
  <2>2. ASSUME ReadStored(a) PROVE TypeOK'
    <3>1. age' \in [App -> 0..Old]
      BY <2>2 DEF ReadStored, TypeOK
    <3>2. task' \in [App -> {"idle", "look", "read", "orphan", "in", "out", "cancelled"}]
      BY <2>2 DEF ReadStored, TypeOK
    <3> QED BY <3>1, <3>2, <2>2 DEF ReadStored, TypeOK
  <2>3. ASSUME ReadFails(a) PROVE TypeOK'
    <3>1. task' \in [App -> {"idle", "look", "read", "orphan", "in", "out", "cancelled"}]
      BY <2>3 DEF ReadFails, TypeOK
    <3> QED BY <3>1, <2>3 DEF ReadFails, TypeOK
  <2>4. ASSUME ReadCancelled(a) PROVE TypeOK'
    <3>1. task' \in [App -> {"idle", "look", "read", "orphan", "in", "out", "cancelled"}]
      BY <2>4 DEF ReadCancelled, TypeOK
    <3> QED BY <3>1, <2>4 DEF ReadCancelled, TypeOK
  <2> QED BY <1>9, <2>1, <2>2, <2>3, <2>4 DEF Evaluate
<1>10. ASSUME Answer PROVE TypeOK'
  BY <1>10 DEF Answer, TypeOK
<1>11. ASSUME UNCHANGED vars PROVE TypeOK'
  BY <1>11 DEF vars, TypeOK
<1> QED BY <1>1, <1>2, <1>3, <1>4, <1>5, <1>6, <1>7, <1>8, <1>9, <1>10, <1>11 DEF Next, Loop

\* Every variable keeps its type, whatever the set of applications and the
\* intervals (the prompt's window, list and cache).
THEOREM TypeCorrect == Spec => []TypeOK
<1>1. Init => TypeOK
  BY TypeInit
<1>2. TypeOK /\ [Next]_vars => TypeOK'
  BY TypeStep
<1> QED BY <1>1, <1>2, PTL DEF Spec

-----------------------------------------------------------------------------
(* How far behind the list may be.                                          *)
IInv == TypeOK /\ Flow /\ Aged /\ FoundInTime

LEMMA FlowInit == Init => Flow
BY DEF Init, Flow, Missed

LEMMA FlowStep == TypeOK /\ Flow /\ [Next]_vars => Flow'
<1> SUFFICES ASSUME TypeOK, Flow, [Next]_vars PROVE Flow'
  OBVIOUS
<1> USE DEF Missed
<1>1. ASSUME NEW a \in App, Start(a) PROVE Flow'
  BY <1>1 DEF Start, TypeOK, Flow
<1>2. ASSUME NEW a \in App, End(a) PROVE Flow'
  <2>1. \A b \in App : gone'[b] = IF b = a THEN 0 ELSE gone[b]
    BY <1>2 DEF End, TypeOK
  <2>2. \A b \in App : task'[b] = IF b = a /\ task[b] = "read" THEN "orphan" ELSE task[b]
    BY <1>2 DEF End, TypeOK
  <2>3. \A b \in App : b \in running' <=> b \in running /\ b # a
    BY <1>2 DEF End
  <2>4. loop' = "off" => waited' = 0 /\ \A b \in App : gone'[b] = 0
    BY <2>1, <1>2 DEF End, Flow
  <2>5. \A b \in App : task'[b] = "read" => b \in running'
    BY <2>2, <2>3 DEF Flow
  <2>6. \A b \in App : task'[b] = "orphan" => Missed(b)' = 0
    BY <2>1, <2>2, <2>3 DEF Flow
  <2>7. loop' # "evaluate" => \A b \in App : task'[b] = "idle"
    BY <2>2, <1>2 DEF End, Flow
  <2> QED BY <2>4, <2>5, <2>6, <2>7, <1>2 DEF End, Flow
<1>3. ASSUME Tick PROVE Flow'
  BY <1>3 DEF Tick, TypeOK, Flow
<1>4. ASSUME Open PROVE Flow'
  <2>1. CASE Enumerate BY <2>1 DEF Enumerate, TypeOK, Flow
  <2>2. CASE MakeFluent BY <2>2 DEF MakeFluent, UpdateAppsToCloseList, TypeOK, Flow
  <2>3. CASE Load BY <2>3 DEF Load, UpdateAppsToCloseList, TypeOK, Flow
  <2>4. CASE OpenClassic BY <2>4 DEF OpenClassic, TypeOK, Flow
  <2> QED BY <1>4, <2>1, <2>2, <2>3, <2>4 DEF Open
<1>5. ASSUME DelayOver PROVE Flow'
  <2>1. \A b \in App : task'[b] \in {"look", "idle"}
    BY <1>5 DEF DelayOver
  <2> QED BY <2>1, <1>5 DEF DelayOver, TypeOK, Flow
<1>6. ASSUME Update PROVE Flow'
  <2>1. \A b \in App : task'[b] = "idle"
    BY <1>6 DEF Update
  <2>2. window' = window /\ window \in {"open", "closed"} /\ listed' = previous'
    BY <1>6 DEF Update, TypeOK, Flow
  <2>3. loop' # "off" /\ loop' # "evaluate"
    BY <1>6 DEF Update
  <2> QED BY <2>1, <2>2, <2>3 DEF Flow
<1>7. ASSUME Ends PROVE Flow'
  <2>1. CASE RoundCancelled
    <3>1. \A b \in App : task'[b] = "idle"
      BY <2>1 DEF RoundCancelled
    <3> QED BY <3>1, <2>1 DEF RoundCancelled, TypeOK, Flow
  <2>2. CASE DelayCancelled \/ StopTimer
    BY <2>2 DEF DelayCancelled, StopTimer, TypeOK, Flow
  <2> QED BY <1>7, <2>1, <2>2 DEF Ends
<1>8. ASSUME ClassicTick PROVE Flow'
  <2>2. window' \in {"open", "closed"} /\ listed' = previous' /\ task' = task
    BY <1>8 DEF ClassicTick, Flow
  <2>3. loop' = loop /\ loop # "evaluate" /\ loop # "off" /\ style' = style /\ running' = running
    BY <1>8, ConstantTypes DEF ClassicTick, TypeOK, Flow
  <2>4. \A b \in App : task'[b] = "idle"
    BY <2>2, <2>3 DEF Flow
  <2> QED BY <2>2, <2>3, <2>4 DEF Flow
<1>9. ASSUME NEW a \in App, Evaluate(a) PROVE Flow'
  <2>1. ASSUME Look(a) PROVE Flow'
    <3>1. \A b \in App : task'[b] = IF b # a THEN task[b] ELSE LookedUp(a)
      BY <2>1 DEF Look, TypeOK
    <3>2. \A b \in App : b # a => gone'[b] = gone[b]
      BY <2>1 DEF Look, CountLookup, TypeOK
    <3>3. loop = "evaluate" /\ loop' = loop
      BY <2>1 DEF Look, TypeOK, Flow
    <3>4. \A b \in App : task'[b] = "read" => b \in running'
      BY <3>1, <2>1 DEF Look, LookedUp, Flow
    <3>5. \A b \in App : task'[b] = "orphan" => Missed(b)' = 0
      BY <3>1, <3>2, <2>1 DEF Look, LookedUp, Flow
    <3> QED BY <3>3, <3>4, <3>5, <2>1 DEF Look, Flow
  <2>2. ASSUME ReadStored(a) PROVE Flow'
    <3>1. loop = "evaluate"
      BY <2>2 DEF ReadStored, TypeOK, Flow
    <3>2. \A b \in App : task'[b] = IF b = a THEN "in" ELSE task[b]
      BY <2>2 DEF ReadStored, TypeOK
    <3> QED BY <3>1, <3>2, <2>2 DEF ReadStored, Flow
  <2>3. ASSUME ReadFails(a) PROVE Flow'
    <3>1. loop = "evaluate"
      BY <2>3 DEF ReadFails, TypeOK, Flow
    <3>2. \A b \in App : task'[b] = IF b = a THEN "out" ELSE task[b]
      BY <2>3 DEF ReadFails, TypeOK
    <3> QED BY <3>1, <3>2, <2>3 DEF ReadFails, Flow
  <2>4. ASSUME ReadCancelled(a) PROVE Flow'
    <3>1. loop = "evaluate"
      BY <2>4 DEF ReadCancelled, TypeOK, Flow
    <3>2. \A b \in App : task'[b] = IF b = a THEN "cancelled" ELSE task[b]
      BY <2>4 DEF ReadCancelled, TypeOK
    <3> QED BY <3>1, <3>2, <2>4 DEF ReadCancelled, Flow
  <2> QED BY <1>9, <2>1, <2>2, <2>3, <2>4 DEF Evaluate
<1>10. ASSUME Answer PROVE Flow'
  BY <1>10 DEF Answer, TypeOK, Flow
<1>11. ASSUME UNCHANGED vars PROVE Flow'
  BY <1>11 DEF vars, TypeOK, Flow
<1> QED BY <1>1, <1>2, <1>3, <1>4, <1>5, <1>6, <1>7, <1>8, <1>9, <1>10, <1>11 DEF Next, Loop

LEMMA MissedType == ASSUME TypeOK, NEW a \in App PROVE Missed(a) \in Nat
BY ConstantTypes DEF TypeOK, Missed

\* Only a lookup counts as missed; whatever else happens, Missed does not grow.
LEMMA MissedMonotone ==
    ASSUME TypeOK, [Next]_vars, NEW a \in App
    PROVE  Missed(a)' <= Missed(a) \/ Look(a) \/ ClassicTick
<1> SUFFICES ASSUME ~Look(a), ~ClassicTick PROVE Missed(a)' <= Missed(a)
  OBVIOUS
<1>0. Missed(a) \in Nat
  BY MissedType
<1>1. ASSUME NEW b \in App, Start(b) PROVE Missed(a)' <= Missed(a)
  BY <1>1, <1>0 DEF Start, TypeOK, Missed
<1>2. ASSUME NEW b \in App, End(b) PROVE Missed(a)' <= Missed(a)
  <2>1. gone'[a] = IF a = b THEN 0 ELSE gone[a]
    BY <1>2 DEF End, TypeOK
  <2> QED BY <2>1, <1>2, <1>0 DEF End, Missed
<1>3. ASSUME NEW b \in App, Look(b) PROVE Missed(a)' <= Missed(a)
  <2>1. b # a
    BY <1>3
  <2>2. gone'[a] = gone[a] /\ running' = running
    BY <1>3, <2>1 DEF Look, CountLookup, TypeOK
  <2> QED BY <2>2, <1>0 DEF Missed
<1>4. ASSUME UNCHANGED <<running, gone>> PROVE Missed(a)' <= Missed(a)
  BY <1>4, <1>0 DEF Missed
<1>5. ASSUME Tick \/ DelayOver \/ Update \/ Ends \/ Answer \/ UNCHANGED vars
      PROVE  UNCHANGED <<running, gone>>
  BY <1>5 DEF Tick, DelayOver, Update, Ends, RoundCancelled, DelayCancelled, StopTimer, Answer, vars
<1>6. ASSUME Open PROVE UNCHANGED <<running, gone>>
  BY <1>6 DEF Open, Enumerate, MakeFluent, Load, OpenClassic
<1>7. ASSUME NEW b \in App, ReadStored(b) \/ ReadFails(b) \/ ReadCancelled(b)
      PROVE  UNCHANGED <<running, gone>>
  BY <1>7 DEF ReadStored, ReadFails, ReadCancelled
<1> QED BY <1>1, <1>2, <1>3, <1>4, <1>5, <1>6, <1>7 DEF Next, Loop, Evaluate

\* One application in a step that lets no more lookups be missed: its entry is
\* too old, was stored just now, or is no younger by what Since has gained.
LEMMA AgedOne ==
    ASSUME TypeOK, TypeOK', NEW a \in App,
           Missed(a)' <= Missed(a),
           age[a] <= LoopFresh => Interval * Missed(a) + Since(a) <= age[a],
           age'[a] <= LoopFresh =>
               age[a] <= LoopFresh /\ Since(a)' - Since(a) <= age'[a] - age[a]
    PROVE  age'[a] <= LoopFresh => Interval * Missed(a)' + Since(a)' <= age'[a]
<1>1. Missed(a) \in Nat /\ Missed(a)' \in Nat
  BY ConstantTypes DEF TypeOK, Missed
<1>2. Interval * Missed(a)' <= Interval * Missed(a)
  BY <1>1, ConstantTypes, MoreRounds
<1>3. Interval * Missed(a)' \in Nat /\ Interval * Missed(a) \in Nat
  BY <1>1, ConstantTypes, NextRound
<1>4. Since(a) \in Int /\ Since(a)' \in Int
  BY ConstantTypes DEF Since, TypeOK
<1>5. age[a] \in Int /\ age'[a] \in Int
  BY ConstantTypes DEF TypeOK
<1> DEFINE m == Interval * Missed(a)
           n == Interval * Missed(a)'
<1> HIDE DEF m, n
<1>6. n <= m /\ m \in Nat /\ n \in Nat
  BY <1>2, <1>3 DEF m, n
<1>7. age[a] <= LoopFresh => m + Since(a) <= age[a]
  BY DEF m
<1>8. age'[a] <= LoopFresh => n + Since(a)' <= age'[a]
  BY <1>4, <1>5, <1>6, <1>7
<1> QED BY <1>8 DEF n

LEMMA AgedStep == TypeOK /\ TypeOK' /\ Flow /\ Aged /\ [Next]_vars => Aged'
<1> SUFFICES ASSUME TypeOK, TypeOK', Flow, Aged, [Next]_vars, style' = "Fluent", NEW a \in App
             PROVE  age'[a] <= LoopFresh => Interval * Missed(a)' + Since(a)' <= age'[a]
  BY DEF Aged
<1>0. style = "Fluent"
  BY DEF Next, Loop, Open, Evaluate, Start, End, Tick, Enumerate, MakeFluent, Load, OpenClassic,
         DelayOver, Update, Ends, RoundCancelled, DelayCancelled, StopTimer, ClassicTick,
         Look, ReadStored, ReadFails, ReadCancelled, Answer, vars
<1>1. age[a] <= LoopFresh => Interval * Missed(a) + Since(a) <= age[a]
  BY <1>0 DEF Aged
<1>2. ~ClassicTick
  BY <1>0 DEF ClassicTick
<1>3. Missed(a)' <= Missed(a) \/ Look(a)
  BY <1>2, MissedMonotone
<1>4. age[a] \in Nat /\ age'[a] \in Nat /\ waited \in Nat /\ waited' \in Nat
  BY ConstantTypes DEF TypeOK
\* Enough for a step that lets Since grow no more than the age.
<1>5. SUFFICES ASSUME ~(age'[a] <= LoopFresh =>
                          age[a] <= LoopFresh /\ Since(a)' - Since(a) <= age'[a] - age[a])
                      \/ Look(a)
               PROVE  age'[a] <= LoopFresh => Interval * Missed(a)' + Since(a)' <= age'[a]
  BY <1>1, <1>3, AgedOne
<1>6. CASE Look(a)
  <2>1. age' = age /\ task[a] = "look" /\ loop = "evaluate" /\ loop' = loop
    BY <1>6 DEF Look, TypeOK, Flow
  <2>2. age[a] <= LoopFresh => task'[a] = "in"
    BY <1>6 DEF Look, LookedUp, TypeOK
  <2>3. Since(a) = Interval /\ (age[a] <= LoopFresh => Since(a)' = 0)
    BY <2>1, <2>2 DEF Since
  <2>4. Missed(a)' <= Missed(a) + 1 /\ Missed(a) \in Nat /\ Missed(a)' \in Nat
    BY <1>6, ConstantTypes DEF Look, CountLookup, Missed, TypeOK
  <2>5. Interval * Missed(a)' <= Interval * (Missed(a) + 1)
    BY <2>4, ConstantTypes, MoreRounds
  <2>6. /\ Interval * (Missed(a) + 1) = Interval * Missed(a) + Interval
        /\ Interval * Missed(a) \in Nat /\ Interval * Missed(a)' \in Nat
    BY <2>4, ConstantTypes, NextRound
  <2> DEFINE m == Interval * Missed(a)
             n == Interval * Missed(a)'
  <2> HIDE DEF m, n
  <2>7. n <= m + Interval /\ m \in Nat /\ n \in Nat
    BY <2>5, <2>6 DEF m, n
  <2>8. age[a] <= LoopFresh => m + Interval <= age[a]
    BY <1>1, <2>3 DEF m
  <2>9. age'[a] <= LoopFresh => n + Since(a)' <= age'[a]
    BY <2>1, <2>3, <2>7, <2>8, <1>4, ConstantTypes
  <2> QED BY <2>9 DEF n
\* What is left is to show that no other step is of this kind.
<1>7. ASSUME ~Look(a), NEW b \in App, Start(b) \/ End(b) PROVE Since(a)' = Since(a) /\ age' = age
  <2>1. task'[a] = "look" <=> task[a] = "look"
    BY <1>7 DEF Start, End, TypeOK
  <2> QED BY <2>1, <1>7 DEF Start, End, Since
<1>8. ASSUME Tick, age'[a] <= LoopFresh
      PROVE  age[a] <= LoopFresh /\ Since(a)' - Since(a) <= age'[a] - age[a]
  <2>1. age'[a] = age[a] + 1 /\ age[a] <= LoopFresh
    BY <1>8, <1>4, ConstantTypes DEF Tick, Older, TypeOK, Old
  <2>2. Since(a)' = Since(a) \/ Since(a)' = Since(a) + 1
    BY <1>8, <1>4 DEF Tick, Since
  <2>3. Since(a) \in Nat
    BY <1>4, ConstantTypes DEF Since
  <2> QED BY <2>1, <2>2, <2>3, <1>4
<1>9. ASSUME MakeFluent \/ Load PROVE Interval * Missed(a)' + Since(a)' <= age'[a]
  <2>1. Missed(a)' = 0
    BY <1>9 DEF MakeFluent, Load, Flow, Missed
  <2>2. Since(a)' = 0
    BY <1>9 DEF MakeFluent, Load, Flow, Since
  <2>3. Interval * 0 = 0
    BY ConstantTypes, SMT
  <2> QED BY <2>1, <2>2, <2>3, <1>4
<1>10. ASSUME Enumerate \/ DelayOver \/ Update \/ Ends \/ Answer \/ UNCHANGED vars
       PROVE  age' = age /\ Since(a)' <= Since(a)
  <2>1. age' = age
    BY <1>10 DEF Enumerate, DelayOver, Update, Ends, RoundCancelled, DelayCancelled, StopTimer,
                 Answer, vars
  <2>2. CASE DelayOver BY <2>2, ConstantTypes DEF DelayOver, Since
  <2>3. CASE Update BY <2>3, <1>4, ConstantTypes DEF Update, Since
  <2>4. CASE Ends
    <3>1. loop' = "ended" /\ task'[a] = "idle"
      BY <2>4 DEF Ends, RoundCancelled, DelayCancelled, StopTimer, Flow
    <3> QED BY <2>1, <3>1, <1>4, ConstantTypes DEF Since
  <2>5. CASE Enumerate \/ Answer \/ UNCHANGED vars
    BY <2>5, <1>4, ConstantTypes DEF Enumerate, Answer, vars, Since
  <2> QED BY <2>1, <2>2, <2>3, <2>4, <2>5, <1>10
<1>11. ASSUME NEW b \in App, b # a, Evaluate(b) PROVE age'[a] = age[a] /\ Since(a)' = Since(a)
  <2>1. task'[a] = task[a] /\ age'[a] = age[a] /\ loop' = loop /\ waited' = waited
    BY <1>11 DEF Evaluate, Look, ReadStored, ReadFails, ReadCancelled, TypeOK
  <2> QED BY <2>1 DEF Since
<1>12. ASSUME ReadStored(a) PROVE Interval * Missed(a)' + Since(a)' <= age'[a]
  <2>1. task[a] \in {"read", "orphan"} /\ loop = "evaluate" /\ loop' = loop
    BY <1>12 DEF ReadStored, TypeOK, Flow
  <2>2. Missed(a)' = 0
    BY <1>12, <2>1 DEF ReadStored, Missed, Flow
  <2>3. task'[a] = "in" /\ age'[a] = 0
    BY <1>12 DEF ReadStored, TypeOK
  <2>4. Interval * 0 = 0
    BY ConstantTypes, SMT
  <2> QED BY <2>1, <2>2, <2>3, <2>4 DEF Since
<1>13. ASSUME ReadFails(a) \/ ReadCancelled(a) PROVE age' = age /\ Since(a)' = Since(a)
  <2>1. /\ task'[a] \in {"out", "cancelled"} /\ task[a] \in {"read", "orphan"}
        /\ loop' = loop /\ waited' = waited /\ age' = age
    BY <1>13 DEF ReadFails, ReadCancelled, TypeOK
  <2> QED BY <2>1 DEF Since
<1>14. Since(a) \in Nat /\ Since(a)' \in Nat
  BY <1>4, ConstantTypes DEF Since
<1>15. ASSUME age'[a] = age[a], Since(a)' <= Since(a)
       PROVE  age'[a] <= LoopFresh =>
                 age[a] <= LoopFresh /\ Since(a)' - Since(a) <= age'[a] - age[a]
  BY <1>15, <1>4, <1>14
<1>16. Since(a) <= Since(a)
  BY <1>14
<1>17. ~OpenClassic
  BY <1>0 DEF OpenClassic
<1>18. SUFFICES ASSUME ~Look(a),
                       ~(age'[a] <= LoopFresh =>
                           age[a] <= LoopFresh /\ Since(a)' - Since(a) <= age'[a] - age[a])
                PROVE  age'[a] <= LoopFresh => Interval * Missed(a)' + Since(a)' <= age'[a]
  BY <1>5, <1>6
<1>19. ~(age'[a] = age[a] /\ Since(a)' <= Since(a))
  BY <1>15, <1>18
<1>20. ~Tick
  BY <1>8, <1>18
<1>21. ~(Enumerate \/ DelayOver \/ Update \/ Ends \/ Answer \/ UNCHANGED vars)
  BY <1>10, <1>19
<1>22. \A b \in App : ~(Start(b) \/ End(b))
  BY <1>7, <1>16, <1>18, <1>19
<1>23. \A b \in App : b # a => ~Evaluate(b)
  BY <1>11, <1>16, <1>19
<1>24. ~ReadFails(a) /\ ~ReadCancelled(a)
  BY <1>13, <1>16, <1>19
<1>25. MakeFluent \/ Load \/ ReadStored(a)
  BY <1>2, <1>17, <1>18, <1>20, <1>21, <1>22, <1>23, <1>24 DEF Next, Loop, Open, Evaluate
<1> QED BY <1>9, <1>12, <1>25

\* What a lookup finds in the cache has not been missed too often.
LEMMA LookInTime ==
    ASSUME TypeOK, Aged, style = "Fluent", Flow,
           NEW a \in App, Look(a), task'[a] = "in"
    PROVE  Missed(a)' <= StaleLookups
<1>1. task[a] = "look" /\ loop = "evaluate" /\ age[a] <= LoopFresh
  BY DEF Look, LookedUp, TypeOK, Flow
<1>2. Interval * Missed(a) + Interval <= age[a]
  BY <1>1 DEF Aged, Since
<1>3. Missed(a) \in Nat /\ Missed(a)' \in Nat /\ Missed(a)' <= Missed(a) + 1
  BY ConstantTypes DEF Look, CountLookup, Missed, TypeOK
<1>4. Interval * (Missed(a) + 1) <= LoopFresh
  <2>1. Interval * (Missed(a) + 1) = Interval * Missed(a) + Interval /\ Interval * Missed(a) \in Nat
    BY <1>3, ConstantTypes, NextRound
  <2>2. age[a] \in Nat
    BY ConstantTypes DEF TypeOK
  <2> DEFINE m == Interval * Missed(a)
  <2> HIDE DEF m
  <2>3. m \in Nat /\ m + Interval <= LoopFresh
    BY <1>1, <1>2, <2>1, <2>2, ConstantTypes DEF m
  <2> QED BY <2>1, <2>3 DEF m
<1>5. Missed(a) + 1 <= StaleLookups
  <2>1. Interval \in Nat \ {0} /\ LoopFresh \in Nat
    BY TimeAssumption
  <2> DEFINE g == Missed(a) + 1
  <2>2. g \in Nat /\ Interval * g <= LoopFresh
    BY <1>3, <1>4
  <2> HIDE DEF g
  <2>3. g <= LoopFresh \div Interval
    BY <2>1, <2>2, RoundsWithin
  <2> QED BY <2>3 DEF g, StaleLookups
<1> QED BY <1>3, <1>5, ConstantTypes

LEMMA FoundStep == TypeOK /\ Flow /\ Aged /\ FoundInTime /\ [Next]_vars => FoundInTime'
<1> SUFFICES ASSUME TypeOK, Flow, Aged, FoundInTime, [Next]_vars PROVE FoundInTime'
  OBVIOUS
<1>0. style' = style
  BY DEF Next, Loop, Open, Evaluate, Start, End, Tick, Enumerate, MakeFluent, Load, OpenClassic,
         DelayOver, Update, Ends, RoundCancelled, DelayCancelled, StopTimer, ClassicTick,
         Look, ReadStored, ReadFails, ReadCancelled, Answer, vars
<1>1. \A a \in App : Missed(a)' <= Missed(a) \/ Look(a) \/ ClassicTick
  BY MissedMonotone
<1>2. StaleLookups \in Nat /\ \A a \in App : Missed(a) \in Nat /\ Missed(a)' \in Nat
  <2>1. TypeOK'
    BY TypeStep
  <2> QED BY <2>1, ConstantTypes DEF TypeOK, Missed
\* Which entries of the cache a round accepts.
<1>3. ASSUME style = "Fluent", NEW a \in App, task'[a] = "in" PROVE Missed(a)' <= StaleLookups
  <2>1. CASE Look(a)
    BY <2>1, <1>3, LookInTime
  <2>2. CASE ReadStored(a)
    <3>1. Missed(a) = 0 /\ running' = running /\ gone' = gone
      BY <2>2 DEF ReadStored, Flow, Missed
    <3> QED BY <3>1, <1>2 DEF Missed
  <2>3. CASE ~Look(a) /\ ~ReadStored(a)
    <3>1. ~ClassicTick
      BY <1>3 DEF ClassicTick
    <3>2. Missed(a)' <= Missed(a)
      BY <1>1, <2>3, <3>1
    <3>3. task[a] = "in"
      <4>1. ASSUME NEW b \in App, Start(b) \/ End(b) PROVE task[a] = "in"
        BY <4>1, <1>3 DEF Start, End, TypeOK
      <4>2. ASSUME NEW b \in App, b # a, Evaluate(b) PROVE task[a] = "in"
        BY <4>2, <1>3 DEF Evaluate, Look, ReadStored, ReadFails, ReadCancelled, TypeOK
      <4>3. ~ReadFails(a) /\ ~ReadCancelled(a)
        BY <1>3 DEF ReadFails, ReadCancelled, TypeOK
      <4>4. ~(DelayOver \/ Update \/ RoundCancelled)
        BY <1>3 DEF DelayOver, Update, RoundCancelled
      <4>5. ASSUME Tick \/ Open \/ Answer \/ DelayCancelled \/ StopTimer \/ UNCHANGED vars
            PROVE  task[a] = "in"
        BY <4>5, <1>3 DEF Tick, Open, Enumerate, MakeFluent, Load, OpenClassic, Answer,
                          DelayCancelled, StopTimer, vars
      <4> QED BY <4>1, <4>2, <4>3, <4>4, <4>5, <2>3, <3>1 DEF Next, Loop, Ends, Evaluate
    <3> QED BY <1>2, <1>3, <3>2, <3>3 DEF FoundInTime
  <2> QED BY <2>1, <2>2, <2>3
\* The steps that replace the list.
<1>4. ASSUME MakeFluent \/ Load \/ OpenClassic, NEW a \in App PROVE Missed(a)' = 0
  <2>1. window \in {"made", "enumerated"} /\ gone' = gone
    BY <1>4 DEF MakeFluent, Load, OpenClassic
  <2>2. gone[a] = 0
    BY <2>1 DEF Flow
  <2> QED BY <2>1, <2>2 DEF Missed
<1>5. ASSUME Update, NEW a \in listed' PROVE a \in App /\ Missed(a)' <= StaleLookups
  <2>1. loop = "evaluate" /\ style = "Fluent" /\ listed = previous
    BY <1>5 DEF Update, Flow, TypeOK
  <2>2. listed' = Updated
    BY <1>5, <2>1 DEF Update
  <2>3. a \in App /\ task[a] = "in" /\ running' = running /\ gone' = gone
    BY <1>5, <2>2 DEF Update, Updated, TypeOK
  <2> QED BY <2>1, <2>3 DEF FoundInTime, Missed
<1>6. ASSUME ClassicTick, NEW a \in listed' PROVE a \in App /\ Missed(a)' = 0
  <2>1. listed = previous
    BY <1>6 DEF ClassicTick, Flow
  <2>2. listed' = running /\ running' = running
    BY <1>6, <2>1 DEF ClassicTick
  <2> QED BY <2>2, <1>6 DEF Missed, TypeOK
\* All others leave it alone.
<1>7. ASSUME ~(MakeFluent \/ Load \/ OpenClassic), ~Update, ~ClassicTick
      PROVE  listed' = listed /\ (loop' = "delay" => loop = "delay")
  BY <1>7 DEF Next, Loop, Open, Evaluate, Start, End, Tick, Enumerate, DelayOver, Ends,
              RoundCancelled, DelayCancelled, StopTimer, Look, ReadStored, ReadFails, ReadCancelled,
              Answer, vars
<1>8. listed \subseteq App /\ listed' \subseteq App
  BY TypeStep DEF TypeOK
<1>9. style = "Fluent" /\ loop' = "delay" => \A a \in listed' : Missed(a)' <= StaleLookups
  <2> SUFFICES ASSUME style = "Fluent", loop' = "delay", NEW a \in listed'
               PROVE  Missed(a)' <= StaleLookups
    OBVIOUS
  <2>1. CASE MakeFluent \/ Load \/ OpenClassic
    BY <2>1, <1>2, <1>4, <1>8
  <2>2. CASE Update
    BY <2>2, <1>5
  <2>3. CASE ClassicTick
    BY <2>3 DEF ClassicTick
  <2>4. CASE ~(MakeFluent \/ Load \/ OpenClassic) /\ ~Update /\ ~ClassicTick
    <3>1. a \in listed /\ loop = "delay" /\ a \in App
      BY <2>4, <1>7, <1>8
    <3>2. ~Look(a)
      BY <3>1 DEF Look, Flow
    <3>3. Missed(a)' <= Missed(a) /\ Missed(a) <= StaleLookups
      BY <1>1, <2>4, <3>1, <3>2 DEF FoundInTime
    <3> QED BY <1>2, <3>1, <3>3
  <2> QED BY <2>1, <2>2, <2>3, <2>4
<1>10. style = "Classic" => \A a \in listed' : Missed(a)' = 0
  <2> SUFFICES ASSUME style = "Classic", NEW a \in listed' PROVE Missed(a)' = 0
    OBVIOUS
  <2>1. CASE MakeFluent \/ Load \/ OpenClassic
    BY <2>1, <1>4, <1>8
  <2>2. ~Update
    BY DEF Update, Flow
  <2>3. CASE ClassicTick
    BY <2>3, <1>6
  <2>4. CASE ~(MakeFluent \/ Load \/ OpenClassic) /\ ~Update /\ ~ClassicTick
    <3>1. a \in listed /\ a \in App
      BY <2>4, <1>7, <1>8
    <3>2. ~Look(a)
      BY <3>1 DEF Look, Flow
    <3>3. Missed(a)' <= Missed(a) /\ Missed(a) = 0
      BY <1>1, <2>4, <3>1, <3>2 DEF FoundInTime
    <3> QED BY <1>2, <3>1, <3>3
  <2> QED BY <2>1, <2>2, <2>3, <2>4
<1> QED BY <1>0, <1>3, <1>9, <1>10 DEF FoundInTime

LEMMA IInvInit == Init => IInv
<1> SUFFICES ASSUME Init PROVE IInv
  OBVIOUS
<1>1. Aged
  BY ConstantTypes DEF Init, Aged
<1>2. FoundInTime
  BY ConstantTypes DEF Init, FoundInTime
<1> QED BY <1>1, <1>2, TypeInit, FlowInit DEF IInv

\* The list is at most StaleLookups rounds behind, whatever the intervals of
\* the cache and of the loop and however applications start and end.
THEOREM StalenessBounded == Spec => []StaleRounds
<1>1. Init => IInv
  BY IInvInit
<1>2. IInv /\ [Next]_vars => IInv'
  BY TypeStep, FlowStep, AgedStep, FoundStep DEF IInv
<1>3. IInv => StaleRounds
  <2> SUFFICES ASSUME IInv, loop = "delay", NEW a \in listed \ running
               PROVE  gone[a] <= StaleLookups
    BY DEF StaleRounds
  <2>1. Missed(a) = gone[a]
    BY DEF Missed
  <2>2. style \in {"Classic", "Fluent"}
    BY DEF IInv, TypeOK
  <2> QED BY <2>1, <2>2, ConstantTypes DEF IInv, FoundInTime
<1> QED BY <1>1, <1>2, <1>3, PTL DEF Spec
=============================================================================
