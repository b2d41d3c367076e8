---------------------- MODULE DeploymentSession_proofs ----------------------
(***************************************************************************)
(* Theorems about DeploymentSession, for every value of its constants.     *)
(***************************************************************************)
EXTENDS DeploymentSession, SequenceTheorems, TLAPS

-----------------------------------------------------------------------------
(* Sequences of sessions. *)
LEMMA TopType ==
    ASSUME sessions \in Seq(Session), Active
    PROVE  /\ Len(sessions) \in Nat \ {0}
           /\ Last(sessions) \in Session
           /\ Front(sessions) \in Seq(Session)
           /\ Len(Front(sessions)) = Len(sessions) - 1
<1>1. Len(sessions) \in Nat \ {0}
  BY DEF Active
<1>2. Last(sessions) \in Session
  BY <1>1 DEF Last
<1>3. Front(sessions) \in Seq(Session) /\ Len(Front(sessions)) = Len(sessions) - 1
  <2>1. 1 \in Int /\ Len(sessions) - 1 \in Int
        /\ \A i \in 1 .. Len(sessions) - 1 : sessions[i] \in Session
    BY <1>1
  <2>2. PICK n \in Nat : n = Len(sessions) - 1
    BY <1>1
  <2>3. SubSeq(sessions, 1, n) \in Seq(Session) /\ Len(SubSeq(sessions, 1, n)) = n
    BY <2>1, <2>2
  <2>4. Front(sessions) = SubSeq(sessions, 1, n)
    BY <2>2 DEF Front
  <2>5. QED
    BY <2>2, <2>3, <2>4, Zenon
<1>4. QED
  BY <1>1, <1>2, <1>3

LEMMA UpdateTopType ==
    ASSUME sessions \in Seq(Session), Active, NEW s \in Session
    PROVE  /\ UpdateTop(s) \in Seq(Session)
           /\ Len(UpdateTop(s)) = Len(sessions)
           /\ UpdateTop(s) # <<>>
BY DEF Active, UpdateTop

LEMMA RecordMountType ==
    ASSUME sessions \in Seq(Session), NEW w \in Wim
    PROVE  /\ RecordMount(w) \in Seq(Session)
           /\ Len(RecordMount(w)) = Len(sessions)
           /\ RecordMount(w) = <<>> <=> sessions = <<>>
<1>1. CASE Active
  <2>1. [Last(sessions) EXCEPT !.wims = @ \cup {w}] \in Session
    BY <1>1, TopType DEF Session
  <2>2. QED
    BY <1>1, <2>1, UpdateTopType DEF RecordMount, Active
<1>2. CASE ~Active
  BY <1>2 DEF RecordMount, Active
<1>3. QED
  BY <1>1, <1>2

LEMMA WithExitCodeType ==
    ASSUME NEW s \in Session, NEW given \in Given
    PROVE  WithExitCode(s, given) \in Session
<1>1. CASE given = {}
  BY <1>1 DEF WithExitCode, CloseWith, Session
<1>2. CASE \E c \in Code : given = {c}
  <2>1. PICK c \in Code : given = {c}
    BY <1>2
  <2>2. (CHOOSE x \in given : TRUE) = c
    BY <2>1
  <2>3. QED
    BY <2>1, <2>2 DEF WithExitCode, CloseWith, Session
<1>3. QED
  BY <1>1, <1>2 DEF Given

-----------------------------------------------------------------------------
(* Records. *)
LEMMA CallType ==
    ASSUME NEW c \in Call, NEW f \in BOOLEAN, NEW g \in BOOLEAN, NEW x \in Code
    PROVE  /\ [c EXCEPT !.first = f, !.noExit = g] \in Call
           /\ [c EXCEPT !.force = f, !.cbError = g] \in Call
           /\ [c EXCEPT !.code = x] \in Call
           /\ [c EXCEPT !.cbError = f] \in Call
           /\ [c EXCEPT !.code = x, !.force = f] \in Call
           /\ [c EXCEPT !.code = x, !.noExit = g, !.force = f] \in Call
BY DEF Call

LEMMA NoCallType == NoCall \in Call
BY CodeAssumption DEF NoCall, Call

LEMMA AbandonType ==
    ASSUME TypeOK, NEW ss \in Seq(Session)
    PROVE  Abandon(ss) \in [wims : SUBSET Wim, drives : SUBSET Drive]
<1>1. ASSUME NEW i \in DOMAIN ss
      PROVE  ss[i].wims \subseteq Wim /\ ss[i].drive \subseteq Drive
  <2>1. ss[i] \in Session
    BY <1>1
  <2>2. QED
    BY <2>1 DEF Session
<1>2. /\ UNION {ss[i].wims \cap mounted : i \in DOMAIN ss} \subseteq Wim
      /\ UNION {ss[i].drive : i \in DOMAIN ss} \subseteq Drive
  BY <1>1
<1>3. stray.wims \subseteq Wim /\ stray.drives \subseteq Drive
  BY DEF TypeOK
<1>4. QED
  BY <1>2, <1>3 DEF Abandon

-----------------------------------------------------------------------------
(* Type correctness. *)
LEMMA InitTypeOK == Init => TypeOK
<1> SUFFICES ASSUME Init PROVE TypeOK
  OBVIOUS
<1>1. callbacks \in [Phase -> Seq(Callback)]
  BY DEF Init
<1>2. call \in Call /\ exitStatus \in [how : {"running", "returned", "exited", "killed"}, code : Code]
  BY NoCallType, CodeAssumption DEF Init, Running
<1>3. pc \in PC
  BY DEF Init, PC
<1>4. sessions \in Seq(Session) /\ building \in Seq(Session) /\ todo \in Seq(Callback)
  BY DEF Init
<1>5. QED
  BY <1>1, <1>2, <1>3, <1>4, CodeAssumption DEF Init, TypeOK

LEMMA RemoveAtType ==
    ASSUME NEW S, NEW s \in Seq(S), NEW i \in DOMAIN s
    PROVE  RemoveAt(s, i) \in Seq(S)
<1> DEFINE n == Len(s)
<1>1. n \in Nat /\ i \in 1 .. n /\ \A j \in 1 .. n : s[j] \in S
  OBVIOUS
<1>2. SubSeq(s, 1, i - 1) \in Seq(S)
  <2>1. 1 \in Int /\ i - 1 \in Int /\ \A j \in 1 .. i - 1 : s[j] \in S
    BY <1>1
  <2>2. QED
    BY <2>1, SubSeqProperties
<1>3. SubSeq(s, i + 1, n) \in Seq(S)
  <2>1. i + 1 \in Int /\ n \in Int /\ \A j \in i + 1 .. n : s[j] \in S
    BY <1>1
  <2>2. QED
    BY <2>1, SubSeqProperties
<1>4. QED
  BY <1>2, <1>3 DEF RemoveAt

LEMMA StartClosingType ==
    ASSUME TypeOK, Active, NEW given \in Given, NEW force \in BOOLEAN,
           StartClosing(given, force)
    PROVE  TypeOK'
<1>1. sessions' \in Seq(Session)
  BY TopType, WithExitCodeType, UpdateTopType DEF StartClosing, TypeOK
<1>2. todo' \in Seq(Callback)
  <2>1. callbacks["Closing"] \in Seq(Callback) /\ callbacks["Finishing"] \in Seq(Callback)
    BY DEF TypeOK, Phase
  <2>2. QED
    BY <2>1 DEF StartClosing
<1>3. QED
  BY <1>1, <1>2 DEF StartClosing, TypeOK, machine, Call, PC, CallbackPhases

LEMMA ScriptOperationType == TypeOK /\ ScriptOperation => TypeOK'
<1> SUFFICES ASSUME TypeOK, ScriptOperation
             PROVE  TypeOK'
  OBVIOUS
<1>1. CASE InitializeADTModule
  <2>1. sessions' \in Seq(Session) /\ lastExitCode' \in Code
    BY <1>1, CodeAssumption DEF InitializeADTModule, ResetModule
  <2>2. QED
    BY <1>1, <2>1 DEF InitializeADTModule, ResetModule, TypeOK, machine
<1>2. ASSUME NEW fresh \in BOOLEAN, NEW noExit \in BOOLEAN, OpenBegin(fresh, noExit)
      PROVE  TypeOK'
  <2>1. sessions' \in Seq(Session) /\ initialized' \in BOOLEAN
    BY <1>2 DEF OpenBegin, TypeOK
  <2>2. call' \in Call
    <3>1. \A f, g \in BOOLEAN : [NoCall EXCEPT !.first = f, !.noExit = g] \in Call
      BY NoCallType, CallType, CodeAssumption
    <3>2. (sessions' = <<>>) \in BOOLEAN
      OBVIOUS
    <3>3. QED
      BY <1>2, <3>1, <3>2, Zenon DEF OpenBegin
  <2>3. stray' \in [wims : SUBSET Wim, drives : SUBSET Drive]
    BY <1>2, AbandonType DEF OpenBegin, TypeOK
  <2>4. pc' \in PC
    BY <1>2 DEF OpenBegin, PC
  <2>5. QED
    BY <1>2, <2>1, <2>2, <2>3, <2>4 DEF OpenBegin, TypeOK, machine
<1>3. ASSUME NEW given \in Given, NEW force \in BOOLEAN, CloseADTSession(given, force)
      PROVE  TypeOK'
  BY <1>3, StartClosingType DEF CloseADTSession
<1>4. ASSUME NEW c \in Code, SetExitCode(c)
      PROVE  TypeOK'
  <2>1. [Last(sessions) EXCEPT !.exitCode = c] \in Session
    BY <1>4, TopType DEF SetExitCode, TypeOK, Session
  <2>2. sessions' \in Seq(Session)
    BY <1>4, <2>1, UpdateTopType DEF SetExitCode, TypeOK
  <2>3. QED
    BY <1>4, <2>2 DEF SetExitCode, TypeOK, machine
<1>5. ASSUME NEW w \in Wim, MountADTWimFile(w)
      PROVE  TypeOK'
  <2>1. sessions' \in Seq(Session)
    BY <1>5, RecordMountType DEF MountADTWimFile, TypeOK
  <2>2. QED
    BY <1>5, <2>1 DEF MountADTWimFile, TypeOK
<1>6. ASSUME NEW w \in Wim, DismountADTWimFile(w)
      PROVE  TypeOK'
  BY <1>6 DEF DismountADTWimFile, TypeOK, module
<1>7. CASE TerminalServerInstallMode
  BY <1>7 DEF TerminalServerInstallMode, EnableTerminalServer, DisableTerminalServer, TypeOK
<1>8. CASE SetADTDeferHistory
  <2>1. Last(sessions).app \in App
    BY <1>8, TopType DEF SetADTDeferHistory, TypeOK, Session
  <2>2. QED
    BY <1>8, <2>1 DEF SetADTDeferHistory, TypeOK, module
<1>9. ASSUME NEW p \in Phase, NEW cb \in Callback, AddCallback(p, cb)
      PROVE  TypeOK'
  <2>1. callbacks' \in [Phase -> Seq(Callback)]
    BY <1>9 DEF AddCallback, TypeOK
  <2>2. QED
    BY <1>9, <2>1 DEF AddCallback, TypeOK, machine
<1>10. ASSUME NEW p \in Phase, NEW cb \in Callback, RemoveCallback(p, cb)
       PROVE  TypeOK'
  <2>1. callbacks' \in [Phase -> Seq(Callback)]
    BY <1>10, RemoveAtType DEF RemoveCallback, TypeOK
  <2>2. QED
    BY <1>10, <2>1 DEF RemoveCallback, TypeOK, machine
<1>11. QED
  BY <1>1, <1>2, <1>3, <1>4, <1>5, <1>6, <1>7, <1>8, <1>9, <1>10 DEF ScriptOperation

LEMMA ConstructType ==
    ASSUME TypeOK, NEW a \in App, NEW rpt \in RebootPassThru, NEW ts \in TerminalServer,
           Construct(a, rpt, ts)
    PROVE  TypeOK'
<1> DEFINE s == [app |-> a, exitCode |-> 0, noExit |-> call.noExit, rebootPassThru |-> rpt,
                 ts |-> ts, wims |-> {}, drive |-> {}]
<1>1. s \in Session
  <2>1. call.noExit \in BOOLEAN
    BY DEF TypeOK, Call
  <2>2. rpt \in BOOLEAN /\ ts \in BOOLEAN /\ 0 \in Code
    BY ParameterAssumption, CodeAssumption
  <2>3. QED
    BY <2>1, <2>2 DEF Session
<1>2. DetectWim(s)
  BY DEF Construct
<1>3. /\ UNCHANGED <<initialized, lastExitCode, tsFlag, callbacks, todo, call, exitStatus>>
      /\ UNCHANGED <<tsInstall, deferHistory, stray>>
  BY DEF Construct
<1> HIDE DEF s
<1>4. CASE building' = <<s>> /\ pc' \in {"finalize", "ctorFailed"}
           /\ UNCHANGED <<sessions, mounted, substed>>
  BY <1>1, <1>3, <1>4 DEF TypeOK, PC
<1>5. CASE ~(building' = <<s>> /\ pc' \in {"finalize", "ctorFailed"}
             /\ UNCHANGED <<sessions, mounted, substed>>)
  <2>1. PICK w \in Wim :
            /\ mounted' = mounted \cup {w}
            /\ sessions' = RecordMount(w)
            /\ \/ \E d \in Drive \ substed :
                    /\ building' = <<[s EXCEPT !.wims = {w}, !.drive = {d}]>>
                    /\ substed' = substed \cup {d}
                    /\ pc' \in {"finalize", "ctorFailed"}
               \/ /\ building' = <<[s EXCEPT !.wims = {w}]>>
                  /\ UNCHANGED substed
                  /\ \/ pc' = "ctorFailed"
                     \/ Drive \subseteq substed /\ pc' = "finalize"
    BY <1>2, <1>5, Zenon DEF DetectWim
  <2>2. mounted' \subseteq Wim /\ sessions' \in Seq(Session)
    BY <2>1, RecordMountType DEF TypeOK
  <2>3. pc' \in PC
    BY <2>1 DEF PC
  <2>4. substed' \subseteq Drive
    BY <2>1 DEF TypeOK
  <2>5. building' \in Seq(Session)
    <3>1. [s EXCEPT !.wims = {w}] \in Session
      BY <1>1 DEF Session
    <3>2. \A d \in Drive : [s EXCEPT !.wims = {w}, !.drive = {d}] \in Session
      BY <1>1 DEF Session
    <3>3. \A x \in Session : <<x>> \in Seq(Session)
      OBVIOUS
    <3>4. QED
      BY <2>1, <3>1, <3>2, <3>3, Zenon
  <2>6. QED
    BY <1>3, <2>2, <2>3, <2>4, <2>5 DEF TypeOK
<1>6. QED
  BY <1>4, <1>5

LEMMA FinalizeType == TypeOK /\ Finalize => TypeOK'
<1> SUFFICES ASSUME TypeOK, Finalize
             PROVE  TypeOK'
  OBVIOUS
<1>1. sessions' \in Seq(Session)
  BY DEF Finalize, TypeOK
<1>2. todo' \in Seq(Callback)
  <2>1. callbacks["Starting"] \in Seq(Callback) /\ callbacks["Opening"] \in Seq(Callback)
    BY DEF TypeOK, Phase
  <2>2. QED
    BY <2>1 DEF Finalize
<1>3. tsFlag' \in BOOLEAN /\ tsInstall' \in BOOLEAN
  BY DEF Finalize, EnableTerminalServer, TypeOK
<1>4. pc' \in PC
  BY DEF Finalize, PC, CallbackPhases
<1>5. QED
  BY <1>1, <1>2, <1>3, <1>4 DEF Finalize, TypeOK

LEMMA TargetType ==
    ASSUME TypeOK, Active \/ building # <<>>
    PROVE  Target \in Session
<1>1. CASE building # <<>>
  BY <1>1 DEF Target, TypeOK
<1>2. CASE building = <<>>
  BY <1>2, TopType DEF Target, TypeOK
<1>3. QED
  BY <1>1, <1>2

LEMMA RemoveTargetType ==
    ASSUME TypeOK, Active \/ building # <<>>, RemoveTarget
    PROVE  /\ sessions' \in Seq(Session)
           /\ building' = <<>> /\ building' \in Seq(Session)
           /\ building # <<>> => sessions' = sessions
           /\ building = <<>> => Len(sessions') = Len(sessions) - 1
BY TopType DEF RemoveTarget, TypeOK

LEMMA FinalCodeType ==
    ASSUME NEW s \in Session
    PROVE  FinalCode(s) \in Code
BY CodeAssumption DEF FinalCode, ClosedAs, Session

LEMMA ReturnFromCloseType ==
    ASSUME TypeOK, Active \/ building # <<>>, NEW code \in Code, ReturnFromClose(code)
    PROVE  pc' \in {"exit", "script"} /\ call' \in Call
<1>1. CASE building # <<>>
  <2>1. call \in Call /\ OpenFailure \in Code
    BY CodeAssumption DEF TypeOK
  <2>2. pc' = "exit" /\ call' = [call EXCEPT !.code = OpenFailure, !.force = FALSE]
    BY <1>1 DEF ReturnFromClose
  <2>3. QED
    BY <2>1, <2>2, CallType, Zenon
<1>2. CASE building = <<>> /\ Len(sessions) = 1
  <2>1. Target.noExit \in BOOLEAN
    BY TargetType DEF Session
  <2>2. (call.force \/ (ConsoleHost /\ call.cbError)) \in BOOLEAN
    OBVIOUS
  <2>3. \A g, f \in BOOLEAN :
            [call EXCEPT !.code = code, !.noExit = g, !.force = f] \in Call
    BY CallType DEF TypeOK
  <2>4. pc' = "exit"
        /\ call' = [call EXCEPT !.code = code, !.noExit = Target.noExit,
                               !.force = @ \/ (ConsoleHost /\ call.cbError)]
    BY <1>2 DEF ReturnFromClose
  <2>5. QED
    BY <2>1, <2>2, <2>3, <2>4, Zenon
<1>3. CASE building = <<>> /\ Len(sessions) # 1
  BY <1>3, NoCallType, Zenon DEF ReturnFromClose
<1>4. QED
  BY <1>1, <1>2, <1>3 DEF ReturnFromClose

LEMMA CloseType ==
    ASSUME TypeOK, Active \/ building # <<>>, Close
    PROVE  TypeOK'
<1>1. Target \in Session
  BY TargetType
<1>2. UNCHANGED <<initialized, callbacks, todo, exitStatus>>
  BY DEF Close
<1>3. <<Target>> \in Seq(Session)
  BY <1>1
<1>4. ASSUME RecordExitCode
      PROVE  lastExitCode' \in Code
  BY <1>1, <1>4, FinalCodeType DEF RecordExitCode, TypeOK
<1>5. ASSUME CloseTerminalServer
      PROVE  tsFlag' \in BOOLEAN /\ tsInstall' \in BOOLEAN
  BY <1>5 DEF CloseTerminalServer, DisableTerminalServer, TypeOK
<1>6. ASSUME ResetDeferHistory
      PROVE  deferHistory' \subseteq App
  BY <1>6 DEF ResetDeferHistory, TypeOK
<1>7. Unhandled \in Code
  BY CodeAssumption
<1>8. {"exit", "script"} \subseteq PC
  BY DEF PC
<1>9. CASE CloseSucceeds
  <2>1. lastExitCode' \in Code /\ tsFlag' \in BOOLEAN /\ tsInstall' \in BOOLEAN
        /\ deferHistory' \subseteq App
    BY <1>4, <1>5, <1>6, <1>9 DEF CloseSucceeds
  <2>2. sessions' \in Seq(Session) /\ building' \in Seq(Session)
    BY <1>9, RemoveTargetType, Zenon DEF CloseSucceeds
  <2>3. pc' \in PC /\ call' \in Call
    <3>1. ReturnFromClose(lastExitCode')
      BY <1>9, Zenon DEF CloseSucceeds
    <3>2. QED
      BY <1>8, <2>1, <3>1, ReturnFromCloseType, Zenon
  <2>4. substed' \subseteq Drive
    BY <1>9 DEF CloseSucceeds, TypeOK
  <2>5. mounted' \subseteq Wim /\ stray' \in [wims : SUBSET Wim, drives : SUBSET Drive]
    BY <1>9 DEF CloseSucceeds, TypeOK
  <2>6. QED
    BY <1>2, <2>1, <2>2, <2>3, <2>4, <2>5 DEF TypeOK
<1>10. CASE CloseThrowsAtHistory
  <2>1. tsFlag' \in BOOLEAN /\ tsInstall' \in BOOLEAN
    BY <1>5, <1>10 DEF CloseThrowsAtHistory
  <2>2. sessions' \in Seq(Session) /\ building' \in Seq(Session)
    BY <1>10, RemoveTargetType, Zenon DEF CloseThrowsAtHistory
  <2>3. pc' \in PC /\ call' \in Call
    <3>1. ReturnFromClose(Unhandled)
      BY <1>10, Zenon DEF CloseThrowsAtHistory
    <3>2. QED
      BY <1>7, <1>8, <3>1, ReturnFromCloseType, Zenon
  <2>4. stray' \in [wims : SUBSET Wim, drives : SUBSET Drive]
    BY <1>3, <1>10, AbandonType DEF CloseThrowsAtHistory
  <2>5. QED
    BY <1>2, <1>10, <2>1, <2>2, <2>3, <2>4 DEF CloseThrowsAtHistory, TypeOK
<1>11. CASE CloseThrowsAtSubst
  <2>1. lastExitCode' \in Code /\ tsFlag' \in BOOLEAN /\ tsInstall' \in BOOLEAN
        /\ deferHistory' \subseteq App
    BY <1>4, <1>5, <1>6, <1>11 DEF CloseThrowsAtSubst
  <2>2. sessions' \in Seq(Session) /\ building' \in Seq(Session)
    BY <1>11, RemoveTargetType, Zenon DEF CloseThrowsAtSubst
  <2>3. pc' \in PC /\ call' \in Call
    <3>1. ReturnFromClose(Unhandled)
      BY <1>11, Zenon DEF CloseThrowsAtSubst
    <3>2. QED
      BY <1>7, <1>8, <3>1, ReturnFromCloseType, Zenon
  <2>4. stray' \in [wims : SUBSET Wim, drives : SUBSET Drive]
    BY <1>3, <1>11, AbandonType DEF CloseThrowsAtSubst
  <2>5. QED
    BY <1>2, <1>11, <2>1, <2>2, <2>3, <2>4 DEF CloseThrowsAtSubst, TypeOK
<1>12. QED
  BY <1>9, <1>10, <1>11 DEF Close

LEMMA CallStepType == TypeOK /\ ControlOK /\ CallStep => TypeOK'
<1> SUFFICES ASSUME TypeOK, ControlOK, CallStep
             PROVE  TypeOK'
  OBVIOUS
<1>1. CASE OpenInitialize
  <2>1. sessions' \in Seq(Session) /\ lastExitCode' \in Code
    <3>1. <<>> \in Seq(Session) /\ 0 \in Code
      BY CodeAssumption
    <3>2. QED
      BY <1>1, <3>1, Zenon DEF OpenInitialize, ResetModule, TypeOK
  <2>2. call' \in Call
    <3>1. [call EXCEPT !.code = OpenFailure] \in Call
      BY CallType, CodeAssumption DEF TypeOK
    <3>2. QED
      BY <1>1, <3>1, Zenon DEF OpenInitialize, TypeOK
  <2>3. pc' \in PC
    BY <1>1 DEF OpenInitialize, PC
  <2>4. QED
    BY <1>1, <2>1, <2>2, <2>3 DEF OpenInitialize, ResetModule, TypeOK, machine
<1>2. ASSUME NEW a \in App, NEW rpt \in RebootPassThru, NEW ts \in TerminalServer,
             Construct(a, rpt, ts)
      PROVE  TypeOK'
  BY <1>2, ConstructType
<1>3. CASE Finalize
  BY <1>3, FinalizeType
<1>4. CASE ConstructorFailed
  <2>1. building[1] \in Session
    BY <1>4 DEF ConstructorFailed, ControlOK, TypeOK
  <2>2. [building[1] EXCEPT !.exitCode = OpenFailure] \in Session
    BY <2>1, CodeAssumption DEF Session
  <2>3. building' \in Seq(Session) /\ pc' \in PC
    BY <1>4, <2>2 DEF ConstructorFailed, PC
  <2>4. QED
    BY <1>4, <2>3 DEF ConstructorFailed, TypeOK, module, machine
<1>5. CASE InvokeCallback
  <2>1. todo' \in Seq(Callback)
    BY <1>5 DEF InvokeCallback, TypeOK
  <2>2. call' \in Call
    <3>1. [call EXCEPT !.cbError = TRUE] \in Call
      BY CallType, CodeAssumption DEF TypeOK
    <3>2. QED
      BY <1>5, <3>1, Zenon DEF InvokeCallback, TypeOK
  <2>3. QED
    BY <1>5, <2>1, <2>2 DEF InvokeCallback, TypeOK, module, machine
<1>6. CASE OpenFails
  <2>1. Active
    BY <1>6 DEF OpenFails, ControlOK, CallbackPhases
  <2>2. {OpenFailure} \in Given /\ FALSE \in BOOLEAN
    BY CodeAssumption DEF Given
  <2>3. QED
    BY <1>6, <2>1, <2>2, StartClosingType, Zenon DEF OpenFails
<1>7. CASE CallbacksDone
  <2>1. pc' \in PC
    BY <1>7 DEF CallbacksDone, PC
  <2>2. call' \in Call
    BY <1>7, NoCallType, Zenon DEF CallbacksDone, TypeOK
  <2>3. QED
    BY <1>7, <2>1, <2>2 DEF CallbacksDone, TypeOK, module, machine
<1>8. CASE Close
  BY <1>8, CloseType DEF Close, ControlOK
<1>9. CASE ExitADTInvocation
  <2>1. call.code \in Code
    BY DEF TypeOK, Call
  <2>2. exitStatus' \in [how : {"running", "returned", "exited", "killed"}, code : Code]
    BY <1>9, <2>1 DEF ExitADTInvocation
  <2>3. stray' \in [wims : SUBSET Wim, drives : SUBSET Drive]
    BY <1>9, AbandonType DEF ExitADTInvocation, TypeOK
  <2>4. pc' \in PC /\ call' \in Call
    BY <1>9, NoCallType DEF ExitADTInvocation, PC
  <2>5. QED
    BY <1>9, <2>2, <2>3, <2>4 DEF ExitADTInvocation, TypeOK, machine
<1>10. QED
  BY <1>1, <1>2, <1>3, <1>4, <1>5, <1>6, <1>7, <1>8, <1>9 DEF CallStep

LEMMA EnvironmentType == TypeOK /\ (Killed \/ NewHost) => TypeOK'
<1> SUFFICES ASSUME TypeOK, Killed \/ NewHost
             PROVE  TypeOK'
  OBVIOUS
<1>1. CASE Killed
  <2>1. sessions \o building \in Seq(Session)
    BY DEF TypeOK
  <2>2. stray' \in [wims : SUBSET Wim, drives : SUBSET Drive]
    BY <1>1, <2>1, AbandonType DEF Killed
  <2>3. exitStatus' \in [how : {"running", "returned", "exited", "killed"}, code : Code]
    BY <1>1, CodeAssumption DEF Killed
  <2>4. building' \in Seq(Session) /\ pc' \in PC
    BY <1>1 DEF Killed, PC
  <2>5. QED
    BY <1>1, <2>2, <2>3, <2>4 DEF Killed, TypeOK, module, machine
<1>2. CASE NewHost
  <2>1. callbacks' \in [Phase -> Seq(Callback)]
    BY <1>2 DEF NewHost
  <2>2. call' \in Call /\ 0 \in Code
    BY <1>2, NoCallType, CodeAssumption DEF NewHost
  <2>3. exitStatus' \in [how : {"running", "returned", "exited", "killed"}, code : Code]
    BY <1>2, <2>2 DEF NewHost, Running
  <2>4. sessions' \in Seq(Session) /\ todo' \in Seq(Callback) /\ pc' \in PC
    BY <1>2 DEF NewHost, PC
  <2>5. QED
    BY <1>2, <2>1, <2>2, <2>3, <2>4 DEF NewHost, TypeOK, machine
<1>3. QED
  BY <1>1, <1>2

-----------------------------------------------------------------------------
(* The control invariant and the safety properties, one action at a time.  *)
Safe ==
    /\ ControlOK
    /\ FreshVerdict
    /\ FlagMeansInstall
    /\ ExitReason
    /\ ExitUnderOpenSession

USE DEF Active

LEMMA InitSafe == Init => Safe
BY DEF Init, Safe, ControlOK, FreshVerdict, FlagMeansInstall, ExitReason, ExitUnderOpenSession,
       CallbackPhases, Running

\* What the operations of a script that is not opening or closing leave alone.
LEMMA QuietStepSafe ==
    ASSUME Inv, InScript, UNCHANGED <<initialized, lastExitCode, pc, building, call, exitStatus>>,
           sessions' = <<>> <=> sessions = <<>>, FlagMeansInstall'
    PROVE  Safe'
BY DEF Inv, Safe, ControlOK, FreshVerdict, ExitReason, ExitUnderOpenSession, InScript,
       CallbackPhases

LEMMA ScriptOperationSafe == Inv /\ ScriptOperation => Safe'
<1> SUFFICES ASSUME Inv, ScriptOperation
             PROVE  Safe'
  OBVIOUS
<1>1. CASE InitializeADTModule
  BY <1>1 DEF InitializeADTModule, ResetModule, Inv, Safe, ControlOK, FreshVerdict,
              FlagMeansInstall, ExitReason, ExitUnderOpenSession, CallbackPhases
<1>2. ASSUME NEW fresh \in BOOLEAN, NEW noExit \in BOOLEAN, OpenBegin(fresh, noExit)
      PROVE  Safe'
  BY <1>2 DEF OpenBegin, Inv, Safe, ControlOK, FreshVerdict, FlagMeansInstall, ExitReason,
              ExitUnderOpenSession, CallbackPhases, machine
<1>3. ASSUME NEW given \in Given, NEW force \in BOOLEAN, CloseADTSession(given, force)
      PROVE  Safe'
  <2>1. sessions' # <<>>
    BY <1>3, TopType, WithExitCodeType, UpdateTopType
       DEF CloseADTSession, StartClosing, Inv, TypeOK
  <2>2. QED
    BY <1>3, <2>1 DEF CloseADTSession, StartClosing, Inv, Safe, ControlOK, FreshVerdict,
                      FlagMeansInstall, ExitReason, ExitUnderOpenSession, CallbackPhases, machine
<1>4. ASSUME NEW c \in Code, SetExitCode(c)
      PROVE  Safe'
  <2>1. [Last(sessions) EXCEPT !.exitCode = c] \in Session
    BY <1>4, TopType DEF SetExitCode, Inv, TypeOK, Session
  <2>2. sessions # <<>> /\ sessions' # <<>>
    BY <1>4, <2>1, UpdateTopType DEF SetExitCode, Inv, TypeOK
  <2>3. QED
    BY <1>4, <2>2, QuietStepSafe DEF SetExitCode, FlagMeansInstall, Inv, machine
<1>5. ASSUME NEW w \in Wim, MountADTWimFile(w)
      PROVE  Safe'
  <2>1. sessions' = <<>> <=> sessions = <<>>
    BY <1>5, RecordMountType DEF MountADTWimFile, Inv, TypeOK
  <2>2. QED
    BY <1>5, <2>1, QuietStepSafe DEF MountADTWimFile, FlagMeansInstall, Inv
<1>6. ASSUME NEW w \in Wim, DismountADTWimFile(w)
      PROVE  Safe'
  BY <1>6, QuietStepSafe DEF DismountADTWimFile, FlagMeansInstall, Inv, module
<1>7. CASE TerminalServerInstallMode
  BY <1>7, QuietStepSafe DEF TerminalServerInstallMode, EnableTerminalServer,
                             DisableTerminalServer, FlagMeansInstall, Inv
<1>8. CASE SetADTDeferHistory
  BY <1>8, QuietStepSafe DEF SetADTDeferHistory, FlagMeansInstall, Inv, module
<1>9. ASSUME NEW p \in Phase, NEW cb \in Callback, AddCallback(p, cb)
      PROVE  Safe'
  BY <1>9, QuietStepSafe DEF AddCallback, FlagMeansInstall, Inv, machine
<1>10. ASSUME NEW p \in Phase, NEW cb \in Callback, RemoveCallback(p, cb)
       PROVE  Safe'
  BY <1>10, QuietStepSafe DEF RemoveCallback, FlagMeansInstall, Inv, machine
<1>11. QED
  BY <1>1, <1>2, <1>3, <1>4, <1>5, <1>6, <1>7, <1>8, <1>9, <1>10 DEF ScriptOperation

LEMMA ConstructSafe ==
    ASSUME Inv, NEW a \in App, NEW rpt \in RebootPassThru, NEW ts \in TerminalServer,
           Construct(a, rpt, ts)
    PROVE  Safe'
<1>1. pc' \in {"finalize", "ctorFailed"}
  BY DEF Construct, DetectWim
<1>2. building' # <<>> /\ Len(building') <= 1
  <2>1. \E s : building' = <<s>>
    BY Zenon DEF Construct, DetectWim
  <2>2. QED
    BY <2>1
<1>3. QED
  BY <1>1, <1>2 DEF Construct, Inv, Safe, ControlOK, FreshVerdict, FlagMeansInstall, ExitReason,
                    ExitUnderOpenSession, CallbackPhases

LEMMA CloseSafe ==
    ASSUME Inv, Close
    PROVE  Safe'
<1>1. Active \/ building # <<>>
  BY DEF Inv, ControlOK, Close
<1>2. /\ building' = <<>>
      /\ building = <<>> => Len(sessions') = Len(sessions) - 1
  BY <1>1, RemoveTargetType DEF Close, CloseSucceeds, CloseThrowsAtHistory, CloseThrowsAtSubst, Inv
<1>3. FlagMeansInstall'
  BY DEF Close, CloseSucceeds, CloseThrowsAtHistory, CloseThrowsAtSubst, CloseTerminalServer,
         DisableTerminalServer, FlagMeansInstall, Inv
<1>4. exitStatus' = exitStatus /\ exitStatus.how # "exited"
  BY DEF Close, Inv, ExitReason
<1>5. PICK code : ReturnFromClose(code)
  BY DEF Close, CloseSucceeds, CloseThrowsAtHistory, CloseThrowsAtSubst
<1>6. CASE building # <<>>
  <2>1. pc' = "exit" /\ call'.code = OpenFailure
    BY <1>5, <1>6 DEF ReturnFromClose, Inv, TypeOK, Call
  <2>2. QED
    BY <1>2, <1>3, <1>4, <2>1 DEF Safe, ControlOK, FreshVerdict, ExitReason,
                                  ExitUnderOpenSession, CallbackPhases
<1>7. CASE building = <<>> /\ Len(sessions) = 1
  <2>1. pc' = "exit"
    BY <1>5, <1>7 DEF ReturnFromClose
  <2>2. sessions' = <<>>
    BY <1>1, <1>2, <1>7, RemoveTargetType
       DEF Close, CloseSucceeds, CloseThrowsAtHistory, CloseThrowsAtSubst, Inv
  <2>3. QED
    BY <1>2, <1>3, <1>4, <2>1, <2>2 DEF Safe, ControlOK, FreshVerdict, ExitReason,
                                        ExitUnderOpenSession, CallbackPhases
<1>8. CASE building = <<>> /\ Len(sessions) # 1
  <2>1. pc' = "script" /\ Len(sessions) > 1
    BY <1>5, <1>8 DEF ReturnFromClose
  <2>2. sessions' # <<>>
    BY <1>2, <1>8, <2>1 DEF Inv, TypeOK
  <2>3. QED
    BY <1>2, <1>3, <1>4, <2>1, <2>2 DEF Safe, ControlOK, FreshVerdict, ExitReason,
                                        ExitUnderOpenSession, CallbackPhases
<1>9. QED
  BY <1>6, <1>7, <1>8

LEMMA CallStepSafe == Inv /\ CallStep => Safe'
<1> SUFFICES ASSUME Inv, CallStep
             PROVE  Safe'
  OBVIOUS
<1>1. CASE OpenInitialize
  BY <1>1 DEF OpenInitialize, ResetModule, Inv, Safe, ControlOK, FreshVerdict, FlagMeansInstall,
              ExitReason, ExitUnderOpenSession, CallbackPhases, machine
<1>2. ASSUME NEW a \in App, NEW rpt \in RebootPassThru, NEW ts \in TerminalServer,
             Construct(a, rpt, ts)
      PROVE  Safe'
  BY <1>2, ConstructSafe
<1>3. CASE Finalize
  <2>1. sessions' # <<>>
    BY <1>3 DEF Finalize, Inv, TypeOK, ControlOK
  <2>2. FlagMeansInstall'
    BY <1>3 DEF Finalize, EnableTerminalServer, Inv, FlagMeansInstall
  <2>3. QED
    BY <1>3, <2>1, <2>2 DEF Finalize, Inv, Safe, ControlOK, FreshVerdict, ExitReason,
                            ExitUnderOpenSession, CallbackPhases
<1>4. CASE ConstructorFailed
  BY <1>4 DEF ConstructorFailed, Inv, Safe, ControlOK, FreshVerdict, FlagMeansInstall, ExitReason,
              ExitUnderOpenSession, CallbackPhases, module, machine
<1>5. CASE InvokeCallback
  BY <1>5 DEF InvokeCallback, Inv, Safe, ControlOK, FreshVerdict, FlagMeansInstall, ExitReason,
              ExitUnderOpenSession, CallbackPhases, module, machine
<1>6. CASE OpenFails
  <2>1. Active /\ {OpenFailure} \in Given
    BY <1>6, CodeAssumption DEF OpenFails, Inv, ControlOK, CallbackPhases, Given
  <2>2. sessions' # <<>>
    BY <1>6, <2>1, TopType, WithExitCodeType, UpdateTopType
       DEF OpenFails, StartClosing, Inv, TypeOK
  <2>3. QED
    BY <1>6, <2>2 DEF OpenFails, StartClosing, Inv, Safe, ControlOK, FreshVerdict,
                      FlagMeansInstall, ExitReason, ExitUnderOpenSession, CallbackPhases, machine
<1>7. CASE CallbacksDone
  BY <1>7 DEF CallbacksDone, Inv, Safe, ControlOK, FreshVerdict, FlagMeansInstall, ExitReason,
              ExitUnderOpenSession, CallbackPhases, module, machine
<1>8. CASE Close
  BY <1>8, CloseSafe
<1>9. CASE ExitADTInvocation
  <2>1. ControlOK' /\ FreshVerdict' /\ FlagMeansInstall'
    BY <1>9 DEF ExitADTInvocation, Inv, ControlOK, FreshVerdict, FlagMeansInstall, CallbackPhases,
                machine
  <2>2. ExitReason' /\ ExitUnderOpenSession'
    BY <1>9 DEF ExitADTInvocation, Inv, ExitReason, ExitUnderOpenSession
  <2>3. QED
    BY <2>1, <2>2 DEF Safe
<1>10. QED
  BY <1>1, <1>2, <1>3, <1>4, <1>5, <1>6, <1>7, <1>8, <1>9 DEF CallStep

LEMMA EnvironmentSafe == Inv /\ (Killed \/ NewHost) => Safe'
<1> SUFFICES ASSUME Inv, Killed \/ NewHost
             PROVE  Safe'
  OBVIOUS
<1>1. CASE Killed
  BY <1>1 DEF Killed, Inv, Safe, ControlOK, FreshVerdict, FlagMeansInstall, ExitReason,
              ExitUnderOpenSession, CallbackPhases, module, machine
<1>2. CASE NewHost
  BY <1>2 DEF NewHost, Running, Inv, Safe, ControlOK, FreshVerdict, FlagMeansInstall, ExitReason,
              ExitUnderOpenSession, CallbackPhases, machine
<1>3. QED
  BY <1>1, <1>2

-----------------------------------------------------------------------------
(* Inv is inductive. *)
LEMMA InitInv == Init => Inv
BY InitTypeOK, InitSafe DEF Inv, Safe

LEMMA StutterInv == Inv /\ UNCHANGED vars => Inv'
<1> SUFFICES ASSUME Inv, UNCHANGED vars
             PROVE  Inv'
  OBVIOUS
<1>1. TypeOK'
  BY DEF Inv, TypeOK, vars, module, machine
<1>2. Safe'
  BY DEF Inv, Safe, ControlOK, FreshVerdict, FlagMeansInstall, ExitReason, ExitUnderOpenSession,
         vars, module, machine
<1>3. QED
  BY <1>1, <1>2 DEF Inv, Safe

LEMMA NextInv == Inv /\ [Next]_vars => Inv'
<1> SUFFICES ASSUME Inv, [Next]_vars
             PROVE  Inv'
  OBVIOUS
<1>1. TypeOK /\ ControlOK
  BY DEF Inv
<1>2. ASSUME Next
      PROVE  TypeOK' /\ Safe'
  <2>1. CASE ScriptOperation
    BY <1>1, <2>1, ScriptOperationType, ScriptOperationSafe
  <2>2. CASE CallStep
    BY <1>1, <2>2, CallStepType, CallStepSafe
  <2>3. CASE Killed \/ NewHost
    BY <1>1, <2>3, EnvironmentType, EnvironmentSafe
  <2>4. QED
    BY <1>2, <2>1, <2>2, <2>3 DEF Next
<1>3. CASE Next
  BY <1>2, <1>3 DEF Inv, Safe
<1>4. QED
  BY <1>3, StutterInv

(* The parts of Inv hold together: each step needs several of them.          *)
THEOREM Invariant == Spec => []Inv
BY InitInv, NextInv, PTL DEF Spec

(* Every variable keeps its type, whatever the sets of codes, images, letters *)
(* and callbacks are and however deep sessions nest.                         *)
THEOREM TypeCorrect == Spec => []TypeOK
<1>1. Inv => TypeOK
  BY DEF Inv
<1>2. QED
  BY Invariant, <1>1, PTL

(* A deployment never inherits LastExitCode from an earlier one: at the      *)
(* moment Open-ADTSession skips Initialize-ADTModule, LastExitCode is 0.     *)
THEOREM DeploymentsStartFresh == Spec => []FreshVerdict
<1>1. Inv => FreshVerdict
  BY DEF Inv
<1>2. QED
  BY Invariant, <1>1, PTL

(* $Script:ADT.TerminalServerMode is never set while the server is in execute *)
(* mode, so Enable-ADTTerminalServerInstallMode is never skipped in error.    *)
THEOREM FlagIsTrue == Spec => []FlagMeansInstall
<1>1. Inv => FlagMeansInstall
  BY DEF Inv
<1>2. QED
  BY Invariant, <1>1, PTL

(* Exit-ADTInvocation ends the host under an open session only for a session *)
(* that failed to open, and with exit code 60008.                            *)
THEOREM ExitsAreExplained == Spec => []ExitUnderOpenSession
<1>1. Inv => ExitUnderOpenSession
  BY DEF Inv
<1>2. QED
  BY Invariant, <1>1, PTL

-----------------------------------------------------------------------------
(* LastExitCode never returns to 0 while sessions are open. *)
LEMMA LastExitCodeSticks ==
    ASSUME Inv, [Next]_vars, lastExitCode # 0, sessions # <<>>, Open' # <<>>
    PROVE  lastExitCode' # 0
<1>1. sessions' # <<>> /\ pc' # "ended"
  BY DEF Open
<1>2. CASE UNCHANGED vars
  BY <1>2 DEF vars, module
<1>3. CASE ScriptOperation
  <2>1. CASE InitializeADTModule
    BY <2>1 DEF InitializeADTModule
  <2>2. CASE ~InitializeADTModule
    BY <1>3, <2>2 DEF ScriptOperation, OpenBegin, CloseADTSession, StartClosing, SetExitCode,
          MountADTWimFile, DismountADTWimFile, TerminalServerInstallMode, SetADTDeferHistory,
          AddCallback, RemoveCallback, module
  <2>3. QED
    BY <2>1, <2>2
<1>4. CASE CallStep
  <2>1. CASE OpenInitialize
    BY <1>1, <2>1 DEF OpenInitialize, ResetModule
  <2>2. CASE Close
    <3>1. CASE RecordExitCode
      BY <3>1 DEF RecordExitCode
    <3>2. CASE CloseThrowsAtHistory
      BY <3>2 DEF CloseThrowsAtHistory
    <3>3. QED
      BY <2>2, <3>1, <3>2 DEF Close, CloseSucceeds, CloseThrowsAtSubst
  <2>3. CASE ~OpenInitialize /\ ~Close
    BY <1>4, <2>3 DEF CallStep, Construct, Finalize, ConstructorFailed, InvokeCallback, OpenFails,
          StartClosing, CallbacksDone, ExitADTInvocation, module
  <2>4. QED
    BY <2>1, <2>2, <2>3
<1>5. CASE Killed
  BY <1>5 DEF Killed, module
<1>6. CASE NewHost
  BY <1>1, <1>6 DEF NewHost
<1>7. QED
  BY <1>2, <1>3, <1>4, <1>5, <1>6 DEF Next

(* A session that closed with an error is not hidden by a later success: in  *)
(* terms of DeploymentVerdict, the verdict does not return to 0 while a      *)
(* session is open.                                                          *)
THEOREM FailuresStick == Spec => FailureSticks
<1>1. ASSUME Inv, [Next]_vars
      PROVE  [(IF Open = <<>> THEN 0 ELSE lastExitCode) # 0
                /\ [i \in DOMAIN Open |-> Open[i].exitCode]' # <<>>
              => (IF Open = <<>> THEN 0 ELSE lastExitCode)' # 0]_(Verdict!vars)
  <2>1. Open # <<>> => sessions # <<>>
    BY DEF Open
  <2>2. Open' = <<>> => [i \in DOMAIN Open |-> Open[i].exitCode]' = <<>>
    OBVIOUS
  <2>3. QED
    BY <1>1, <2>1, <2>2, LastExitCodeSticks
<1>2. QED
  BY <1>1, Invariant, PTL DEF Spec, FailureSticks, Verdict!VerdictSticks
-----------------------------------------------------------------------------
(* Calls end: the measure that falls with every step of a call. *)
LEMMA LabelDistance ==
    \A label \in PC : /\ Distance(label) \in Nat
                      /\ label \notin {"script", "ended"} => Distance(label) > 0
BY DEF Distance, PC, CallbackPhases

LEMMA CloseIsNearer ==
    ASSUME Close
    PROVE  Distance(pc') < Distance(pc)
<1>1. pc = "close" /\ pc' \in {"exit", "script"}
  <2>1. ASSUME NEW code, ReturnFromClose(code)
        PROVE  pc' \in {"exit", "script"}
    BY <2>1 DEF ReturnFromClose
  <2>2. QED
    BY <2>1 DEF Close, CloseSucceeds, CloseThrowsAtHistory, CloseThrowsAtSubst
<1>2. QED
  BY <1>1 DEF Distance

LEMMA CallStepIsNearer ==
    ASSUME TypeOK, CallStep
    PROVE  Nearer
<1>1. CASE OpenInitialize
  BY <1>1 DEF OpenInitialize, Nearer, Distance
<1>2. ASSUME NEW a \in App, NEW rpt \in RebootPassThru, NEW ts \in TerminalServer,
             Construct(a, rpt, ts)
      PROVE  Nearer
  <2>1. pc = "construct" /\ pc' \in {"finalize", "ctorFailed"}
    BY <1>2 DEF Construct, DetectWim
  <2>2. QED
    BY <2>1 DEF Nearer, Distance
<1>3. CASE Finalize
  BY <1>3 DEF Finalize, Nearer, Distance
<1>4. CASE ConstructorFailed
  BY <1>4 DEF ConstructorFailed, Nearer, Distance
<1>5. CASE InvokeCallback
  <2>1. todo \in Seq(Callback) /\ todo # <<>> /\ todo' = Tail(todo) /\ pc' = pc
    BY <1>5 DEF InvokeCallback, TypeOK
  <2>2. QED
    BY <2>1 DEF Nearer
<1>6. CASE OpenFails
  BY <1>6 DEF OpenFails, StartClosing, Nearer, Distance
<1>7. CASE CallbacksDone
  BY <1>7 DEF CallbacksDone, CallbackPhases, Nearer, Distance
<1>8. CASE Close
  BY <1>8, CloseIsNearer DEF Nearer
<1>9. CASE ExitADTInvocation
  BY <1>9 DEF ExitADTInvocation, Nearer, Distance
<1>10. QED
  BY <1>1, <1>2, <1>3, <1>4, <1>5, <1>6, <1>7, <1>8, <1>9 DEF CallStep

LEMMA OtherStepsLeaveTheCall ==
    ASSUME TypeOK, [Next]_vars, ~CallStep, pc \notin {"script", "ended"}
    PROVE  Nearer \/ UNCHANGED <<pc, todo>>
<1>1. CASE ScriptOperation
  BY <1>1 DEF ScriptOperation, InitializeADTModule, OpenBegin, CloseADTSession, SetExitCode,
        MountADTWimFile, DismountADTWimFile, TerminalServerInstallMode, SetADTDeferHistory,
        AddCallback, RemoveCallback
<1>2. CASE Killed
  <2>1. pc' = "ended" /\ pc \in PC
    BY <1>2 DEF Killed, TypeOK
  <2>2. Distance(pc) > 0 /\ Distance(pc') = 0
    BY <2>1, LabelDistance DEF Distance
  <2>3. QED
    BY <2>2 DEF Nearer
<1>3. CASE NewHost
  BY <1>3 DEF NewHost
<1>4. CASE UNCHANGED vars
  BY <1>4 DEF vars
<1>5. QED
  BY <1>1, <1>2, <1>3, <1>4 DEF Next

(* No call of Open- or Close-ADTSession goes on for ever, whatever lists of  *)
(* callbacks it was given and whatever they do to the lists: the distance to *)
(* its end, a natural number, and then the callbacks left, fall with every   *)
(* step of the call and rise with none between.  It is what CallReturns      *)
(* rests on, besides the fairness of the host.                               *)
THEOREM CallsComeToAnEnd == Spec => CallsAdvance
<1>1. ASSUME Inv, [Next]_vars
      PROVE  [pc \notin {"script", "ended"}
                => /\ CallStep => Nearer
                   /\ Nearer \/ UNCHANGED <<pc, todo>>]_vars
  <2>1. TypeOK
    BY <1>1 DEF Inv
  <2>2. CallStep => Nearer
    BY <2>1, CallStepIsNearer
  <2>3. QED
    BY <1>1, <2>1, <2>2, OtherStepsLeaveTheCall
<1>2. QED
  BY <1>1, Invariant, PTL DEF Spec, CallsAdvance
=============================================================================
