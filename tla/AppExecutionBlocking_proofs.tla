-------------------- MODULE AppExecutionBlocking_proofs --------------------
(***************************************************************************)
(* Deployments that do not overlap: whatever is killed, refused by the     *)
(* registry or rebooted, a blocked executable always has a startup task    *)
(* that will unblock it; and a deployment none of whose calls has failed   *)
(* leaves nothing blocked when it closes.                                  *)
(***************************************************************************)
EXTENDS AppExecutionBlocking, TLAPS

-----------------------------------------------------------------------------
LEMMA InitSequential == Init => SequentialInv
BY DEF Init, SequentialInv, TypeOK, SafetyNet, PC, Down

LEMMA NextTypeOK ==
    ASSUME TypeOK, [Next]_vars
    PROVE  TypeOK'
<1> USE DEF TypeOK, PC, Down, machine, locals, Goto
<1>1. CASE UNCHANGED vars
  BY <1>1 DEF vars
<1>2. ASSUME NEW h \in Host, Start(h)
      PROVE  TypeOK'
  BY <1>2 DEF Start
<1>3. ASSUME NEW h \in Host, UnblockStep(h)
      PROVE  TypeOK'
  <2>1. CASE Visit(h) /\ UNCHANGED <<tasks, callback>>
    <3>1. CASE Fail(h) /\ UNCHANGED <<debugger, made>>
      BY <1>3, <2>1, <3>1 DEF UnblockStep, Fail, Return, ForgetLocals
    <3>2. CASE ~(Fail(h) /\ UNCHANGED <<debugger, made>>)
      <4>1. PICK e \in todo[h] : /\ todo' = [todo EXCEPT ![h] = @ \ {e}]
                                /\ debugger' = debugger \ {e}
                                /\ made' = [made EXCEPT ![h] = @ \ {e}]
                                /\ UNCHANGED <<pc, named, closing, refused>>
        BY <2>1, <3>2, Zenon DEF Visit
      <4>2. QED
        BY <1>3, <2>1, <4>1 DEF UnblockStep
    <3>3. QED
      BY <3>1, <3>2
  <2>2. CASE Unregister(h) /\ UNCHANGED <<debugger, made>>
    <3>1. tasks' \subseteq App /\ callback' \in [Host -> BOOLEAN]
      BY <1>3, <2>2 DEF UnblockStep, Unregister
    <3>2. CASE Fail(h)
      BY <1>3, <2>2, <3>1, <3>2 DEF UnblockStep, Fail, Return, ForgetLocals
    <3>3. CASE ~Fail(h)
      <4>1. /\ UNCHANGED refused
            /\ \/ Goto(h, "register") /\ UNCHANGED locals
               \/ Return(h)
        BY <2>2, <3>3, Zenon DEF Unregister
      <4>2. QED
        BY <1>3, <2>2, <3>1, <4>1 DEF UnblockStep, Return, ForgetLocals
    <3>4. QED
      BY <3>2, <3>3
  <2>3. QED
    BY <1>3, <2>1, <2>2 DEF UnblockStep
<1>4. ASSUME NEW h \in Host, NEW last \in BOOLEAN, Unblock(h, last)
      PROVE  TypeOK'
  BY <1>4 DEF Unblock
<1>5. ASSUME NEW h \in Host, CloseWithoutCallback(h)
      PROVE  TypeOK'
  BY <1>5 DEF CloseWithoutCallback
<1>6. ASSUME NEW h \in Host, NEW a \in App, Block(h, a)
      PROVE  TypeOK'
  BY <1>6 DEF Block
<1>7. ASSUME NEW h \in Host, RegisterTask(h)
      PROVE  TypeOK'
  BY <1>7 DEF RegisterTask, Fail, Return, ForgetLocals
<1>8. ASSUME NEW h \in Host, SetDebugger(h)
      PROVE  TypeOK'
  <2>1. CASE Fail(h) /\ UNCHANGED <<debugger, made>>
    BY <1>8, <2>1 DEF SetDebugger, Fail, Return, ForgetLocals
  <2>2. CASE ~(Fail(h) /\ UNCHANGED <<debugger, made>>)
    <3>1. PICK e \in todo[h] : /\ debugger' = debugger \cup {e}
                              /\ made' = [made EXCEPT ![h] = @ \cup {e}]
                              /\ todo' = [todo EXCEPT ![h] = @ \ {e}]
                              /\ UNCHANGED <<pc, named, closing, refused>>
      BY <1>8, <2>2, Zenon DEF SetDebugger
    <3>2. QED
      BY <1>8, <3>1 DEF SetDebugger
  <2>3. QED
    BY <2>1, <2>2
<1>9. ASSUME NEW h \in Host, BlockDone(h)
      PROVE  TypeOK'
  BY <1>9 DEF BlockDone, Fail, Return, ForgetLocals
<1>10. ASSUME NEW h \in Host, Kill(h)
       PROVE  TypeOK'
  BY <1>10 DEF Kill, ForgetLocals
<1>11. CASE Reboot
  BY <1>11 DEF Reboot
<1>12. ASSUME NEW a \in App, NEW e \in Exe, StartupVisit(a, e)
       PROVE  TypeOK'
  BY <1>12 DEF StartupVisit
<1>13. ASSUME NEW a \in App, StartupUnregister(a)
       PROVE  TypeOK'
  BY <1>13 DEF StartupUnregister
<1>14. QED
  BY <1>1, <1>2, <1>3, <1>4, <1>5, <1>6, <1>7, <1>8, <1>9, <1>10, <1>11, <1>12, <1>13 DEF Next

(* Every variable keeps its type, with or without overlap and failures. *)
THEOREM BlockingTypeCorrect == Spec => []TypeOK
<1>1. Init => TypeOK
  BY DEF Init, TypeOK, PC, Down
<1>2. QED
  BY <1>1, NextTypeOK, PTL DEF Spec

-----------------------------------------------------------------------------
(* The parts of SequentialInv other than the type invariant. *)
LEMMA NextSequential ==
    ASSUME ~Concurrent, SequentialInv, [Next]_vars
    PROVE  SequentialInv'
<1> USE DEF SequentialInv, TypeOK, SafetyNet, Down, machine, locals, Goto
<1>t. TypeOK'
  BY NextTypeOK
<1>1. CASE UNCHANGED vars
  BY <1>t, <1>1 DEF vars
<1>2. ASSUME NEW h \in Host, Start(h)
      PROVE  SequentialInv'
  BY <1>t, <1>2 DEF Start
<1>3. ASSUME NEW h \in Host, UnblockStep(h)
      PROVE  SequentialInv'
  <2>1. CASE Visit(h) /\ UNCHANGED <<tasks, callback>>
    BY <1>t, <1>3, <2>1 DEF UnblockStep, Visit, Fail, Return, ForgetLocals
  <2>2. CASE Unregister(h) /\ UNCHANGED <<debugger, made>>
    <3>1. debugger = {} /\ debugger' = {}
      BY <1>3, <2>2 DEF UnblockStep, Unregister
    <3>2. QED
      BY <1>t, <1>3, <2>2, <3>1 DEF UnblockStep, Unregister, Fail, Return, ForgetLocals
  <2>3. QED
    BY <1>3, <2>1, <2>2 DEF UnblockStep
<1>4. ASSUME NEW h \in Host, NEW last \in BOOLEAN, Unblock(h, last)
      PROVE  SequentialInv'
  BY <1>t, <1>4 DEF Unblock
<1>5. ASSUME NEW h \in Host, CloseWithoutCallback(h)
      PROVE  SequentialInv'
  BY <1>t, <1>5 DEF CloseWithoutCallback
<1>6. ASSUME NEW h \in Host, NEW a \in App, Block(h, a)
      PROVE  SequentialInv'
  BY <1>t, <1>6 DEF Block
<1>7. ASSUME NEW h \in Host, RegisterTask(h)
      PROVE  SequentialInv'
  BY <1>t, <1>7 DEF RegisterTask, Fail, Return, ForgetLocals
<1>8. ASSUME NEW h \in Host, SetDebugger(h)
      PROVE  SequentialInv'
  BY <1>t, <1>8 DEF SetDebugger, Fail, Return, ForgetLocals
<1>9. ASSUME NEW h \in Host, BlockDone(h)
      PROVE  SequentialInv'
  BY <1>t, <1>9 DEF BlockDone, Fail, Return, ForgetLocals
<1>10. ASSUME NEW h \in Host, Kill(h)
       PROVE  SequentialInv'
  BY <1>t, <1>10 DEF Kill, ForgetLocals
<1>11. CASE Reboot
  BY <1>t, <1>11 DEF Reboot
<1>12. ASSUME NEW a \in App, NEW e \in Exe, StartupVisit(a, e)
       PROVE  SequentialInv'
  BY <1>t, <1>12 DEF StartupVisit
<1>13. ASSUME NEW a \in App, StartupUnregister(a)
       PROVE  SequentialInv'
  <2>1. debugger = {} /\ debugger' = {}
    BY <1>13 DEF StartupUnregister
  <2>2. QED
    BY <1>t, <1>13, <2>1 DEF StartupUnregister
<1>14. QED
  BY <1>1, <1>2, <1>3, <1>4, <1>5, <1>6, <1>7, <1>8, <1>9, <1>10, <1>11, <1>12, <1>13 DEF Next

(* While an executable is blocked there is a startup task that will unblock  *)
(* it, if deployments and startup tasks do not overlap.                      *)
THEOREM InterruptionIsCovered ==
    ASSUME ~Concurrent
    PROVE  Spec => []SafetyNet
<1>1. SequentialInv => SafetyNet
  BY DEF SequentialInv
<1>2. SequentialInv /\ [Next]_vars => SequentialInv'
  BY NextSequential
<1>3. QED
  BY InitSequential, <1>1, <1>2, PTL DEF Spec

-----------------------------------------------------------------------------
LEMMA InitClose == Init => CloseInv
BY InitSequential DEF Init, CloseInv

(* A call that fails returns to the script or ends the deployment.           *)
LEMMA FailedClose ==
    ASSUME ~Concurrent, CloseInv, SequentialInv', NEW h \in Host,
           pc[h] \notin Down, Fail(h), UNCHANGED <<callback, made>>
    PROVE  CloseInv'
<1>1. TypeOK /\ TypeOK'
  BY DEF CloseInv, SequentialInv
<1>2. \A g \in Host : g # h => pc[g] \in Down
  BY DEF CloseInv, SequentialInv
<1>3. /\ pc' = [pc EXCEPT ![h] = IF closing[h] THEN "closed" ELSE "run"]
      /\ closing' = [closing EXCEPT ![h] = FALSE]
      /\ refused' = [refused EXCEPT ![h] = TRUE]
  BY DEF Fail, Return, Goto, ForgetLocals
<1>4. pc'[h] \in {"closed", "run"} /\ refused'[h] /\ ~closing'[h]
  BY <1>1, <1>3 DEF TypeOK
<1>5. \A g \in Host : g # h => /\ pc'[g] = pc[g]
                              /\ refused'[g] = refused[g]
                              /\ closing'[g] = closing[g]
  BY <1>1, <1>3 DEF TypeOK
<1>6. QED
  BY <1>1, <1>2, <1>4, <1>5 DEF CloseInv, Down

LEMMA NextClose ==
    ASSUME ~Concurrent, CloseInv, [Next]_vars
    PROVE  CloseInv'
<1>s. SequentialInv' /\ SequentialInv /\ TypeOK /\ TypeOK'
  BY NextSequential DEF CloseInv, SequentialInv
<1>o. \A g, h \in Host : pc[g] \notin Down /\ pc[h] \notin Down => g = h
  BY <1>s DEF SequentialInv
<1> USE <1>s, <1>o DEF CloseInv, TypeOK, Down, machine, locals, Goto
<1>1. CASE UNCHANGED vars
  BY <1>1 DEF vars
<1>2. ASSUME NEW h \in Host, Start(h)
      PROVE  CloseInv'
  BY <1>2 DEF Start
<1>3. ASSUME NEW h \in Host, UnblockStep(h)
      PROVE  CloseInv'
  <2>1. CASE Visit(h) /\ UNCHANGED <<tasks, callback>>
    <3>1. CASE Fail(h) /\ UNCHANGED <<debugger, made>>
      BY <1>3, <2>1, <3>1, FailedClose DEF UnblockStep
    <3>2. CASE ~(Fail(h) /\ UNCHANGED <<debugger, made>>)
      <4>1. PICK e \in todo[h] : /\ todo' = [todo EXCEPT ![h] = @ \ {e}]
                                /\ debugger' = debugger \ {e}
                                /\ made' = [made EXCEPT ![h] = @ \ {e}]
                                /\ UNCHANGED <<pc, named, closing, refused>>
        BY <2>1, <3>2, Zenon DEF Visit
      <4>2. QED
        BY <1>3, <2>1, <4>1 DEF UnblockStep
    <3>3. QED
      BY <3>1, <3>2
  <2>2. CASE Unregister(h) /\ UNCHANGED <<debugger, made>>
    <3>1. CASE Fail(h) /\ UNCHANGED callback
      BY <1>3, <2>2, <3>1, FailedClose DEF UnblockStep
    <3>2. CASE ~(Fail(h) /\ UNCHANGED callback)
      <4>1. /\ made[h] = {}
            /\ tasks' = tasks \ named[h]
            /\ callback' = [callback EXCEPT ![h] = FALSE]
            /\ IF pc[h] = "cleanup" THEN Goto(h, "register") /\ UNCHANGED locals ELSE Return(h)
            /\ UNCHANGED refused
        BY <1>3, <2>2, <3>2 DEF UnblockStep, Unregister
      <4>2. CASE pc[h] = "cleanup"
        BY <1>3, <2>2, <4>1, <4>2 DEF UnblockStep
      <4>3. CASE pc[h] # "cleanup"
        BY <1>3, <2>2, <4>1, <4>3 DEF UnblockStep, Return, ForgetLocals
      <4>4. QED
        BY <4>2, <4>3
    <3>3. QED
      BY <3>1, <3>2
  <2>3. QED
    BY <1>3, <2>1, <2>2 DEF UnblockStep
<1>4. ASSUME NEW h \in Host, NEW last \in BOOLEAN, Unblock(h, last)
      PROVE  CloseInv'
  BY <1>4 DEF Unblock
<1>5. ASSUME NEW h \in Host, CloseWithoutCallback(h)
      PROVE  CloseInv'
  BY <1>5 DEF CloseWithoutCallback
<1>6. ASSUME NEW h \in Host, NEW a \in App, Block(h, a)
      PROVE  CloseInv'
  BY <1>6 DEF Block
<1>7. ASSUME NEW h \in Host, RegisterTask(h)
      PROVE  CloseInv'
  <2>1. ~Fail(h) => /\ tasks' = tasks \cup named[h]
                    /\ Goto(h, "keys")
                    /\ UNCHANGED <<named, closing, refused>>
    BY <1>7, Zenon DEF RegisterTask
  <2>2. CASE Fail(h)
    BY <1>7, <2>2, FailedClose DEF RegisterTask
  <2>3. CASE ~Fail(h)
    BY <1>7, <2>1, <2>3 DEF RegisterTask
  <2>4. QED
    BY <2>2, <2>3
<1>8. ASSUME NEW h \in Host, SetDebugger(h)
      PROVE  CloseInv'
  <2>1. CASE Fail(h) /\ UNCHANGED <<debugger, made>>
    BY <1>8, <2>1, FailedClose DEF SetDebugger
  <2>2. CASE ~(Fail(h) /\ UNCHANGED <<debugger, made>>)
    <3>1. PICK e \in todo[h] : /\ debugger' = debugger \cup {e}
                              /\ made' = [made EXCEPT ![h] = @ \cup {e}]
                              /\ todo' = [todo EXCEPT ![h] = @ \ {e}]
                              /\ UNCHANGED <<pc, named, closing, refused>>
      BY <1>8, <2>2, Zenon DEF SetDebugger
    <3>2. QED
      BY <1>8, <3>1 DEF SetDebugger
  <2>3. QED
    BY <2>1, <2>2
<1>9. ASSUME NEW h \in Host, BlockDone(h)
      PROVE  CloseInv'
  <2>1. closing[h] \in BOOLEAN
    OBVIOUS
  <2>2. QED
    BY <1>9, <2>1 DEF BlockDone, Fail, Return, ForgetLocals
<1>10. ASSUME NEW h \in Host, Kill(h)
       PROVE  CloseInv'
  BY <1>10 DEF Kill, ForgetLocals
<1>11. CASE Reboot
  BY <1>11 DEF Reboot
<1>12. ASSUME NEW a \in App, NEW e \in Exe, StartupVisit(a, e)
       PROVE  CloseInv'
  BY <1>12 DEF StartupVisit
<1>13. ASSUME NEW a \in App, StartupUnregister(a)
       PROVE  CloseInv'
  BY <1>13 DEF StartupUnregister, SequentialInv
<1>14. QED
  BY <1>1, <1>2, <1>3, <1>4, <1>5, <1>6, <1>7, <1>8, <1>9, <1>10, <1>11, <1>12, <1>13 DEF Next

(* A deployment that closes has removed every value it has set, if none of   *)
(* its calls has failed and deployments do not overlap.                      *)
THEOREM NothingBlockedAfterClose ==
    ASSUME ~Concurrent
    PROVE  Spec => []UnblockedAtClose
<1>1. CloseInv => UnblockedAtClose
  BY DEF CloseInv, UnblockedAtClose
<1>2. CloseInv /\ [Next]_vars => CloseInv'
  BY NextClose
<1>3. QED
  BY InitClose, <1>1, <1>2, PTL DEF Spec

(* Where the values a deployment has set can be: nowhere, unless it is       *)
(* setting them, its callback is registered, or one of its calls failed.     *)
THEOREM ValuesAreAccountedFor ==
    ASSUME ~Concurrent
    PROVE  Spec => []CloseInv
<1>1. CloseInv /\ [Next]_vars => CloseInv'
  BY NextClose
<1>2. QED
  BY InitClose, <1>1, PTL DEF Spec
=============================================================================
