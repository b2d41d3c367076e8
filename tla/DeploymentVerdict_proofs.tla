---------------------- MODULE DeploymentVerdict_proofs ----------------------
(***************************************************************************)
(* DeploymentSession implements DeploymentVerdict: every step of the       *)
(* sessions is, under the mapping of Verdict, a step of the promise or     *)
(* changes nothing the promise speaks of.                                  *)
(***************************************************************************)
EXTENDS DeploymentSession_proofs

\* The exit codes of a list of sessions.
Codes(ss) == [i \in DOMAIN ss |-> ss[i].exitCode]

\* The refinement mapping, variable by variable.
AbsCodes == [i \in DOMAIN Open |-> Open[i].exitCode]
AbsVerdict == IF Open = <<>> THEN 0 ELSE lastExitCode
AbsDue == IF pc = "exit" THEN {call.code} ELSE {}

VerdictStep == Verdict!Next \/ UNCHANGED Verdict!vars

(* What the code about to open a first session relies on, and the code a     *)
(* session under construction has.                                           *)
OpeningInv ==
    /\ pc \in {"construct", "finalize"} /\ sessions = <<>> => lastExitCode = 0
    /\ pc = "finalize" => building[1].exitCode = 0
    /\ pc = "close" /\ building # <<>> => building[1].exitCode = OpenFailure

-----------------------------------------------------------------------------
(* Exit codes of lists of sessions. *)
LEMMA CodesType ==
    ASSUME NEW ss \in Seq(Session)
    PROVE  /\ Codes(ss) \in Seq(Code)
           /\ Len(Codes(ss)) = Len(ss)
           /\ \A i \in 1 .. Len(ss) : Codes(ss)[i] = ss[i].exitCode
           /\ Codes(ss) = <<>> <=> ss = <<>>
<1>1. PICK n \in Nat : n = Len(ss) /\ DOMAIN ss = 1 .. n
  OBVIOUS
<1>2. \A i \in 1 .. n : ss[i].exitCode \in Code
  <2>1. \A i \in 1 .. n : ss[i] \in Session
    BY <1>1
  <2>2. \A x \in Session : x.exitCode \in Code
    BY DEF Session
  <2>3. QED
    BY <2>1, <2>2
<1>3. Codes(ss) = [i \in 1 .. n |-> ss[i].exitCode]
  BY <1>1 DEF Codes
<1>4. Codes(ss) \in Seq(Code) /\ Len(Codes(ss)) = n
  BY <1>2, <1>3
<1>5. \A i \in 1 .. n : Codes(ss)[i] = ss[i].exitCode
  BY <1>3
<1>6. Codes(ss) = <<>> <=> n = 0
  BY <1>4
<1>7. ss = <<>> <=> n = 0
  BY <1>1
<1>8. QED
  BY <1>1, <1>4, <1>5, <1>6, <1>7

LEMMA CodesEqual ==
    ASSUME NEW c \in Seq(Code), NEW d \in Seq(Code), Len(c) = Len(d),
           \A i \in 1 .. Len(c) : c[i] = d[i]
    PROVE  c = d
BY SeqEqual, Zenon

LEMMA CodesOfLast ==
    ASSUME sessions \in Seq(Session), Active
    PROVE  /\ Last(Codes(sessions)) = Last(sessions).exitCode
           /\ Codes(Front(sessions)) = Front(Codes(sessions))
<1>1. PICK n \in Nat \ {0} : n = Len(sessions)
  BY TopType
<1>2. /\ Codes(sessions) \in Seq(Code) /\ Len(Codes(sessions)) = n
      /\ \A i \in 1 .. n : Codes(sessions)[i] = sessions[i].exitCode
  BY <1>1, CodesType
<1>3. Last(Codes(sessions)) = Last(sessions).exitCode
  BY <1>1, <1>2 DEF Last
<1>4. /\ Front(sessions) \in Seq(Session) /\ Len(Front(sessions)) = n - 1
      /\ \A i \in 1 .. n - 1 : Front(sessions)[i] = sessions[i]
  BY <1>1, TopType DEF Front
<1>5. /\ Codes(Front(sessions)) \in Seq(Code) /\ Len(Codes(Front(sessions))) = n - 1
      /\ \A i \in 1 .. n - 1 : Codes(Front(sessions))[i] = sessions[i].exitCode
  <2>1. /\ Codes(Front(sessions)) \in Seq(Code) /\ Len(Codes(Front(sessions))) = n - 1
        /\ \A i \in 1 .. n - 1 : Codes(Front(sessions))[i] = Front(sessions)[i].exitCode
    BY <1>4, CodesType
  <2>2. QED
    BY <1>4, <2>1
<1> DEFINE c == Codes(sessions)
<1>6. Front(c) = SubSeq(c, 1, n - 1)
  BY <1>2 DEF Front
<1>7. c \in Seq(Code) /\ Len(c) = n
  BY <1>2
<1> HIDE DEF c
<1>8. /\ SubSeq(c, 1, n - 1) \in Seq(Code) /\ Len(SubSeq(c, 1, n - 1)) = n - 1
      /\ \A i \in 1 .. n - 1 : SubSeq(c, 1, n - 1)[i] = c[i]
  BY <1>1, <1>7
<1>9. \A i \in 1 .. n - 1 : Codes(Front(sessions))[i] = Front(c)[i]
  BY <1>2, <1>5, <1>6, <1>8 DEF c
<1>10. Codes(Front(sessions)) = Front(c)
  BY <1>5, <1>6, <1>8, <1>9, CodesEqual
<1>11. QED
  BY <1>3, <1>10 DEF c

LEMMA CodesOfAppend ==
    ASSUME NEW ss \in Seq(Session), NEW s \in Session
    PROVE  Codes(ss \o <<s>>) = Append(Codes(ss), s.exitCode)
<1>1. PICK n \in Nat : n = Len(ss)
  OBVIOUS
<1>2. /\ Codes(ss) \in Seq(Code) /\ Len(Codes(ss)) = n
      /\ \A i \in 1 .. n : Codes(ss)[i] = ss[i].exitCode
  BY <1>1, CodesType
<1>3. /\ ss \o <<s>> \in Seq(Session) /\ Len(ss \o <<s>>) = n + 1
      /\ \A i \in 1 .. n + 1 : (ss \o <<s>>)[i] = IF i <= n THEN ss[i] ELSE s
  BY <1>1
<1>4. /\ Codes(ss \o <<s>>) \in Seq(Code) /\ Len(Codes(ss \o <<s>>)) = n + 1
      /\ \A i \in 1 .. n + 1 : Codes(ss \o <<s>>)[i] = (ss \o <<s>>)[i].exitCode
  BY <1>3, CodesType
<1>5. s.exitCode \in Code
  BY DEF Session
<1> DEFINE c == Codes(ss)
<1>6. c \in Seq(Code) /\ Len(c) = n /\ \A i \in 1 .. n : c[i] = ss[i].exitCode
  BY <1>2
<1> HIDE DEF c
<1>7. /\ Append(c, s.exitCode) \in Seq(Code) /\ Len(Append(c, s.exitCode)) = n + 1
      /\ \A i \in 1 .. n + 1 : Append(c, s.exitCode)[i] = IF i <= n THEN c[i] ELSE s.exitCode
  BY <1>5, <1>6
<1>8. \A i \in 1 .. n + 1 : Codes(ss \o <<s>>)[i] = Append(c, s.exitCode)[i]
  <2>1. \A i \in 1 .. n + 1 : Codes(ss \o <<s>>)[i] = IF i <= n THEN ss[i].exitCode
                                                              ELSE s.exitCode
    BY <1>3, <1>4
  <2>2. \A i \in 1 .. n + 1 : Append(c, s.exitCode)[i] = IF i <= n THEN ss[i].exitCode
                                                               ELSE s.exitCode
    BY <1>6, <1>7
  <2>3. QED
    BY <2>1, <2>2
<1>9. Codes(ss \o <<s>>) = Append(c, s.exitCode)
  BY <1>4, <1>7, <1>8, CodesEqual
<1>10. QED
  BY <1>9 DEF c

LEMMA CodesOfTop ==
    ASSUME sessions \in Seq(Session), Active, NEW r \in Session
    PROVE  Codes(UpdateTop(r)) = [Codes(sessions) EXCEPT ![Len(Codes(sessions))] = r.exitCode]
<1>1. PICK n \in Nat \ {0} : n = Len(sessions)
  BY TopType
<1>2. /\ Codes(sessions) \in Seq(Code) /\ Len(Codes(sessions)) = n
      /\ \A i \in 1 .. n : Codes(sessions)[i] = sessions[i].exitCode
  BY <1>1, CodesType
<1>3. /\ UpdateTop(r) \in Seq(Session) /\ Len(UpdateTop(r)) = n
      /\ \A i \in 1 .. n : UpdateTop(r)[i] = IF i = n THEN r ELSE sessions[i]
  BY <1>1, UpdateTopType DEF UpdateTop
<1>4. /\ Codes(UpdateTop(r)) \in Seq(Code) /\ Len(Codes(UpdateTop(r))) = n
      /\ \A i \in 1 .. n : Codes(UpdateTop(r))[i] = UpdateTop(r)[i].exitCode
  BY <1>3, CodesType
<1> DEFINE c == Codes(sessions)
           e == [c EXCEPT ![n] = r.exitCode]
<1>5. c \in Seq(Code) /\ Len(c) = n /\ \A i \in 1 .. n : c[i] = sessions[i].exitCode
  BY <1>2
<1> HIDE DEF c
<1>6. r.exitCode \in Code
  BY DEF Session
<1>7. /\ e \in Seq(Code) /\ Len(e) = n
      /\ \A i \in 1 .. n : e[i] = IF i = n THEN r.exitCode ELSE c[i]
  BY <1>5, <1>6
<1> HIDE DEF e
<1>8. \A i \in 1 .. n : Codes(UpdateTop(r))[i] = e[i]
  BY <1>3, <1>4, <1>5, <1>7
<1>9. Codes(UpdateTop(r)) = e
  BY <1>4, <1>7, <1>8, CodesEqual
<1>10. QED
  BY <1>5, <1>9 DEF c, e

\* Recording an image leaves the codes alone.
LEMMA CodesOfRecordMount ==
    ASSUME sessions \in Seq(Session), NEW w \in Wim
    PROVE  Codes(RecordMount(w)) = Codes(sessions)
<1> DEFINE r == [Last(sessions) EXCEPT !.wims = @ \cup {w}]
           c == Codes(sessions)
<1>1. CASE Active
  <2>1. Last(sessions) \in Session
    BY <1>1, TopType
  <2>2. r \in Session /\ r.exitCode = Last(sessions).exitCode
    BY <2>1 DEF Session
  <2>3. RecordMount(w) = UpdateTop(r)
    BY <1>1 DEF RecordMount
  <2> HIDE DEF r
  <2>4. Codes(UpdateTop(r)) = [c EXCEPT ![Len(c)] = r.exitCode]
    BY <1>1, <2>2, CodesOfTop
  <2>5. c \in Seq(Code) /\ c # <<>>
    BY <1>1, CodesType DEF Active
  <2>6. c[Len(c)] = Last(sessions).exitCode
    BY <1>1, CodesOfLast DEF Last
  <2> HIDE DEF c
  <2>7. [c EXCEPT ![Len(c)] = r.exitCode] = c
    BY <2>2, <2>5, <2>6
  <2>8. QED
    BY <2>3, <2>4, <2>7 DEF c
<1>2. CASE ~Active
  BY <1>2 DEF RecordMount
<1>3. QED
  BY <1>1, <1>2

-----------------------------------------------------------------------------
(* OpeningInv is preserved. *)
LEMMA InitOpening == Init => OpeningInv
BY DEF Init, OpeningInv

LEMMA ConstructOpening ==
    ASSUME Inv, OpeningInv,
           NEW a \in App, NEW rpt \in RebootPassThru, NEW ts \in TerminalServer,
           Construct(a, rpt, ts)
    PROVE  OpeningInv'
<1> DEFINE s == [app |-> a, exitCode |-> 0, noExit |-> call.noExit, rebootPassThru |-> rpt,
                 ts |-> ts, wims |-> {}, drive |-> {}]
<1>1. DetectWim(s) /\ pc = "construct" /\ lastExitCode' = lastExitCode
  BY DEF Construct
<1>2. s.exitCode = 0
  OBVIOUS
<1>3. \A w, d : /\ [s EXCEPT !.wims = {w}].exitCode = 0
                /\ [s EXCEPT !.wims = {w}, !.drive = {d}].exitCode = 0
  OBVIOUS
<1> HIDE DEF s
<1>4. building'[1].exitCode = 0
  <2>1. \/ building' = <<s>>
        \/ \E w \in Wim, d \in Drive : building' = <<[s EXCEPT !.wims = {w}, !.drive = {d}]>>
        \/ \E w \in Wim : building' = <<[s EXCEPT !.wims = {w}]>>
    BY <1>1, Zenon DEF DetectWim
  <2>2. \A x : x.exitCode = 0 /\ building' = <<x>> => building'[1].exitCode = 0
    OBVIOUS
  <2>3. QED
    BY <1>2, <1>3, <2>1, <2>2, Zenon
<1>5. pc' \in {"finalize", "ctorFailed"}
  BY <1>1 DEF DetectWim
<1>6. sessions' = <<>> <=> sessions = <<>>
  <2>1. sessions' = sessions \/ \E w \in Wim : sessions' = RecordMount(w)
    BY <1>1, Zenon DEF DetectWim
  <2>2. QED
    BY <2>1, RecordMountType DEF Inv, TypeOK
<1>7. QED
  BY <1>1, <1>4, <1>5, <1>6 DEF OpeningInv

LEMMA CallStepOpening == Inv /\ OpeningInv /\ CallStep => OpeningInv'
<1> SUFFICES ASSUME Inv, OpeningInv, CallStep
             PROVE  OpeningInv'
  OBVIOUS
<1>1. CASE OpenInitialize
  BY <1>1 DEF OpenInitialize, ResetModule, Inv, OpeningInv
<1>2. ASSUME NEW a \in App, NEW rpt \in RebootPassThru, NEW ts \in TerminalServer,
             Construct(a, rpt, ts)
      PROVE  OpeningInv'
  BY <1>2, ConstructOpening
<1>3. CASE ConstructorFailed
  <2>1. building \in Seq(Session) /\ building # <<>>
    BY <1>3 DEF ConstructorFailed, Inv, TypeOK, ControlOK
  <2>2. building[1] \in Session
    BY <2>1
  <2>3. building'[1].exitCode = OpenFailure
    BY <1>3, <2>2 DEF ConstructorFailed, Session
  <2>4. QED
    BY <1>3, <2>3 DEF ConstructorFailed, OpeningInv
<1>4. CASE Finalize \/ OpenFails \/ ExitADTInvocation
  BY <1>4 DEF Finalize, OpenFails, StartClosing, ExitADTInvocation, OpeningInv
<1>5. CASE InvokeCallback \/ CallbacksDone
  BY <1>5 DEF InvokeCallback, CallbacksDone, CallbackPhases, module, OpeningInv, Inv, ControlOK
<1>6. CASE Close
  <2>1. pc' \in {"exit", "script"}
    BY <1>6 DEF Close, CloseSucceeds, CloseThrowsAtHistory, CloseThrowsAtSubst, ReturnFromClose
  <2>2. QED
    BY <2>1 DEF OpeningInv
<1>7. QED
  BY <1>1, <1>2, <1>3, <1>4, <1>5, <1>6 DEF CallStep

LEMMA NextOpening == Inv /\ OpeningInv /\ [Next]_vars => OpeningInv'
<1> SUFFICES ASSUME Inv, OpeningInv, [Next]_vars
             PROVE  OpeningInv'
  OBVIOUS
<1>1. ASSUME NEW fresh \in BOOLEAN, NEW noExit \in BOOLEAN, OpenBegin(fresh, noExit)
      PROVE  OpeningInv'
  BY <1>1 DEF OpenBegin, Inv, FreshVerdict, OpeningInv, Active
<1>2. CASE ScriptOperation
  <2>1. pc' \in {"script"} \cup CallbackPhases \/ \E f, n \in BOOLEAN : OpenBegin(f, n)
    BY <1>2 DEF ScriptOperation, InitializeADTModule, CloseADTSession, StartClosing, SetExitCode,
         MountADTWimFile, DismountADTWimFile, TerminalServerInstallMode, SetADTDeferHistory,
         AddCallback, RemoveCallback, InScript, CallbackPhases
  <2>2. QED
    BY <1>1, <2>1 DEF OpeningInv, CallbackPhases
<1>3. CASE CallStep
  BY <1>3, CallStepOpening
<1>4. CASE Killed \/ NewHost
  BY <1>4 DEF Killed, NewHost, OpeningInv
<1>5. CASE UNCHANGED vars
  BY <1>5 DEF vars, module, OpeningInv
<1>6. QED
  BY <1>2, <1>3, <1>4, <1>5 DEF Next

-----------------------------------------------------------------------------
(* The steps of the promise, in terms of the mapping. *)
LEMMA StepStutter ==
    ASSUME AbsCodes' = AbsCodes, AbsVerdict' = AbsVerdict, AbsDue' = AbsDue,
           exitStatus' = exitStatus
    PROVE  VerdictStep
BY DEF VerdictStep, Verdict!vars, AbsCodes, AbsVerdict, AbsDue

LEMMA StepBegin ==
    ASSUME AbsDue = {}, AbsCodes' = Append(AbsCodes, 0),
           AbsVerdict' = AbsVerdict, AbsDue' = AbsDue, exitStatus' = exitStatus
    PROVE  VerdictStep
BY Zenon DEF VerdictStep, Verdict!Next, Verdict!Begin, AbsCodes, AbsVerdict, AbsDue

LEMMA StepSetCode ==
    ASSUME AbsDue = {}, AbsCodes # <<>>, NEW c \in Code,
           AbsCodes' = [AbsCodes EXCEPT ![Len(AbsCodes)] = c],
           AbsVerdict' = AbsVerdict, AbsDue' = AbsDue, exitStatus' = exitStatus
    PROVE  VerdictStep
BY Zenon DEF VerdictStep, Verdict!Next, Verdict!SetCode, AbsCodes, AbsVerdict, AbsDue

\* How the code c, closed with or without an error, shows in the promise.
Outcome(c, failed) ==
    IF Len(AbsCodes) = 1
    THEN /\ AbsDue' = {IF failed THEN Verdict!Unhandled ELSE Verdict!Latest(c)}
         /\ AbsVerdict' = 0
    ELSE /\ AbsDue' = AbsDue
         /\ \/ AbsVerdict' = Verdict!Latest(c)
            \/ failed /\ 0 \in Verdict!Results(Last(AbsCodes)) /\ AbsVerdict' = AbsVerdict

LEMMA StepFinish ==
    ASSUME AbsDue = {}, AbsCodes # <<>>, AbsCodes' = Front(AbsCodes), exitStatus' = exitStatus,
           NEW c \in Verdict!Results(Last(AbsCodes)), NEW failed \in BOOLEAN,
           Outcome(c, failed)
    PROVE  VerdictStep
<1>1. Verdict!Finish
  BY DEF Verdict!Finish, Verdict!Front, Verdict!Last, Front, Last, Outcome,
         AbsCodes, AbsVerdict, AbsDue
<1>2. QED
  BY <1>1, Zenon DEF VerdictStep, Verdict!Next

LEMMA StepFailToOpen ==
    ASSUME AbsDue = {}, AbsDue' = {OpenFailure}, AbsCodes' = AbsCodes,
           AbsCodes = <<>> => AbsVerdict' = 0,
           AbsCodes # <<>> => AbsVerdict' \in {AbsVerdict, OpenFailure},
           exitStatus' = exitStatus
    PROVE  VerdictStep
<1>1. Verdict!FailToOpen
  BY DEF Verdict!FailToOpen, Verdict!OpenFailure, OpenFailure, AbsCodes, AbsVerdict, AbsDue
<1>2. QED
  BY <1>1, Zenon DEF VerdictStep, Verdict!Next

LEMMA StepReport ==
    ASSUME NEW c \in AbsDue, AbsDue' = {},
           \/ /\ exitStatus' = [how |-> "returned", code |-> c]
              /\ AbsCodes' = AbsCodes /\ AbsVerdict' = AbsVerdict
           \/ /\ exitStatus' = [how |-> "exited", code |-> c]
              /\ AbsCodes' = <<>> /\ AbsVerdict' = 0
    PROVE  VerdictStep
BY Zenon DEF VerdictStep, Verdict!Next, Verdict!Report, AbsCodes, AbsVerdict, AbsDue

LEMMA StepAbandon ==
    ASSUME AbsCodes' = <<>>, AbsVerdict' = 0, AbsDue' = {},
           \/ AbsDue = {} /\ exitStatus' = exitStatus
           \/ exitStatus' = [how |-> "killed", code |-> 0]
    PROVE  VerdictStep
BY Zenon DEF VerdictStep, Verdict!Next, Verdict!Abandon, AbsCodes, AbsVerdict, AbsDue

LEMMA StepNewHost ==
    ASSUME AbsCodes = <<>>, AbsDue = {}, exitStatus' = [how |-> "running", code |-> 0],
           AbsCodes' = AbsCodes, AbsVerdict' = AbsVerdict, AbsDue' = AbsDue
    PROVE  VerdictStep
BY Zenon DEF VerdictStep, Verdict!Next, Verdict!NewHost, AbsCodes, AbsVerdict, AbsDue

-----------------------------------------------------------------------------
(* What the mapping shows of a state, before and after a step. *)
LEMMA ViewNow ==
    ASSUME Inv, pc # "ended"
    PROVE  /\ AbsCodes = Codes(sessions)
           /\ AbsCodes = <<>> <=> sessions = <<>>
           /\ AbsVerdict = IF sessions = <<>> THEN 0 ELSE lastExitCode
<1>1. sessions \in Seq(Session) /\ Open = sessions
  BY DEF Inv, TypeOK, Open
<1>2. AbsCodes = Codes(sessions)
  BY <1>1, Zenon DEF AbsCodes, Codes
<1>3. AbsVerdict = IF sessions = <<>> THEN 0 ELSE lastExitCode
  BY <1>1, Zenon DEF AbsVerdict
<1>4. QED
  BY <1>1, <1>2, <1>3, CodesType

LEMMA ViewNext ==
    ASSUME sessions' \in Seq(Session), pc' # "ended"
    PROVE  /\ AbsCodes' = Codes(sessions')
           /\ AbsCodes' = <<>> <=> sessions' = <<>>
           /\ AbsVerdict' = IF sessions' = <<>> THEN 0 ELSE lastExitCode'
<1>1. Open' = sessions'
  BY DEF Open
<1>2. AbsCodes' = Codes(sessions')
  BY <1>1, Zenon DEF AbsCodes, Codes
<1>3. AbsVerdict' = IF sessions' = <<>> THEN 0 ELSE lastExitCode'
  BY <1>1, Zenon DEF AbsVerdict
<1>4. QED
  BY <1>1, <1>2, <1>3, CodesType

LEMMA ViewEnded ==
    /\ pc = "ended" => AbsCodes = <<>> /\ AbsVerdict = 0 /\ AbsDue = {}
    /\ pc' = "ended" => AbsCodes' = <<>> /\ AbsVerdict' = 0 /\ AbsDue' = {}
BY DEF AbsCodes, AbsVerdict, AbsDue, Open

LEMMA ViewOfDue ==
    /\ pc # "exit" => AbsDue = {}
    /\ pc' # "exit" => AbsDue' = {}
    /\ pc = "exit" => AbsDue = {call.code}
    /\ pc' = "exit" => AbsDue' = {call'.code}
BY DEF AbsDue

-----------------------------------------------------------------------------
(* Which step of the promise a step of the sessions is. *)
LEMMA Unseen ==
    ASSUME Inv, Inv', pc \notin {"ended", "exit"}, pc' \notin {"ended", "exit"},
           Codes(sessions') = Codes(sessions),
           sessions # <<>> => lastExitCode' = lastExitCode,
           exitStatus' = exitStatus
    PROVE  VerdictStep
<1>1. sessions \in Seq(Session) /\ sessions' \in Seq(Session)
  BY DEF Inv, TypeOK
<1>2. sessions = <<>> <=> sessions' = <<>>
  BY <1>1, CodesType
<1>3. AbsCodes' = AbsCodes /\ AbsVerdict' = AbsVerdict
  BY <1>1, <1>2, ViewNow, ViewNext
<1>4. AbsDue' = AbsDue
  BY ViewOfDue
<1>5. QED
  BY <1>3, <1>4, StepStutter

LEMMA CodeChange ==
    ASSUME Inv, Inv', Active, pc \notin {"ended", "exit"}, pc' \notin {"ended", "exit"},
           NEW r \in Session, sessions' = UpdateTop(r),
           lastExitCode' = lastExitCode, exitStatus' = exitStatus
    PROVE  VerdictStep
<1>1. sessions \in Seq(Session) /\ sessions' \in Seq(Session)
  BY DEF Inv, TypeOK
<1>2. sessions # <<>> /\ sessions' # <<>>
  BY <1>1, UpdateTopType DEF Active
<1>3. AbsCodes = Codes(sessions) /\ AbsCodes # <<>> /\ AbsCodes' = Codes(sessions')
  BY <1>1, <1>2, ViewNow, ViewNext
<1>4. AbsCodes' = [AbsCodes EXCEPT ![Len(AbsCodes)] = r.exitCode]
  BY <1>1, <1>3, CodesOfTop
<1>5. AbsVerdict' = AbsVerdict /\ AbsDue = {} /\ AbsDue' = AbsDue
  BY <1>1, <1>2, ViewNow, ViewNext, ViewOfDue
<1>6. r.exitCode \in Code
  BY DEF Session
<1>7. QED
  BY <1>3, <1>4, <1>5, <1>6, StepSetCode

LEMMA StartClosingStep ==
    ASSUME Inv, Inv', Active, pc \notin {"ended", "exit"},
           NEW given \in Given, NEW force \in BOOLEAN, StartClosing(given, force)
    PROVE  VerdictStep
<1> DEFINE r == WithExitCode(Last(sessions), given)
<1>1. r \in Session
  BY TopType, WithExitCodeType DEF Inv, TypeOK
<1>2. /\ sessions' = UpdateTop(r) /\ pc' = "closeCallbacks"
      /\ lastExitCode' = lastExitCode /\ exitStatus' = exitStatus
  BY DEF StartClosing
<1> HIDE DEF r
<1>3. QED
  BY <1>1, <1>2, CodeChange

LEMMA OpenBeginStep ==
    ASSUME Inv, Inv', NEW fresh \in BOOLEAN, NEW noExit \in BOOLEAN, OpenBegin(fresh, noExit)
    PROVE  VerdictStep
<1>1. /\ pc = "script" /\ pc' \in {"initialize", "construct"}
      /\ lastExitCode' = lastExitCode /\ exitStatus' = exitStatus
  BY DEF OpenBegin
<1>2. CASE ~fresh
  <2>1. sessions' = sessions
    BY <1>2 DEF OpenBegin
  <2>2. QED
    BY <1>1, <2>1, Unseen
<1>3. CASE fresh
  <2>1. sessions' = <<>> /\ sessions' \in Seq(Session)
    BY <1>3 DEF OpenBegin
  <2>2. AbsCodes' = <<>> /\ AbsVerdict' = 0 /\ AbsDue' = {} /\ AbsDue = {}
    BY <1>1, <2>1, ViewNext, ViewOfDue
  <2>3. QED
    BY <1>1, <2>2, StepAbandon
<1>4. QED
  BY <1>2, <1>3

LEMMA ScriptOperationStep == Inv /\ Inv' /\ ScriptOperation => VerdictStep
<1> SUFFICES ASSUME Inv, Inv', ScriptOperation
             PROVE  VerdictStep
  OBVIOUS
<1>1. CASE InitializeADTModule
  BY <1>1, Unseen DEF InitializeADTModule, ResetModule, Active
<1>2. ASSUME NEW fresh \in BOOLEAN, NEW noExit \in BOOLEAN, OpenBegin(fresh, noExit)
      PROVE  VerdictStep
  BY <1>2, OpenBeginStep
<1>3. ASSUME NEW given \in Given, NEW force \in BOOLEAN, CloseADTSession(given, force)
      PROVE  VerdictStep
  BY <1>3, StartClosingStep DEF CloseADTSession
<1>4. ASSUME NEW c \in Code, SetExitCode(c)
      PROVE  VerdictStep
  <2> DEFINE r == [Last(sessions) EXCEPT !.exitCode = c]
  <2>1. r \in Session
    BY <1>4, TopType DEF SetExitCode, Inv, TypeOK, Session
  <2>2. /\ Active /\ sessions' = UpdateTop(r) /\ pc' = pc /\ pc \notin {"ended", "exit"}
        /\ lastExitCode' = lastExitCode /\ exitStatus' = exitStatus
    BY <1>4 DEF SetExitCode, InScript, CallbackPhases
  <2> HIDE DEF r
  <2>3. QED
    BY <2>1, <2>2, CodeChange
<1>5. ASSUME NEW w \in Wim, MountADTWimFile(w)
      PROVE  VerdictStep
  <2>1. Codes(sessions') = Codes(sessions)
    BY <1>5, CodesOfRecordMount DEF MountADTWimFile, Inv, TypeOK
  <2>2. QED
    BY <1>5, <2>1, Unseen DEF MountADTWimFile, InScript, CallbackPhases
<1>6. CASE \/ TerminalServerInstallMode
           \/ SetADTDeferHistory
           \/ \E w \in Wim : DismountADTWimFile(w)
           \/ \E p \in Phase, cb \in Callback : AddCallback(p, cb)
           \/ \E p \in Phase, cb \in Callback : RemoveCallback(p, cb)
  <2>1. /\ pc \notin {"ended", "exit"} /\ pc' = pc /\ sessions' = sessions
        /\ lastExitCode' = lastExitCode /\ exitStatus' = exitStatus
    BY <1>6 DEF TerminalServerInstallMode, SetADTDeferHistory, DismountADTWimFile, AddCallback,
                RemoveCallback, InScript, CallbackPhases, module
  <2>2. QED
    BY <2>1, Unseen
<1>7. QED
  BY <1>1, <1>2, <1>3, <1>4, <1>5, <1>6 DEF ScriptOperation

LEMMA OpenInitializeStep ==
    ASSUME Inv, Inv', OpenInitialize
    PROVE  VerdictStep
<1>1. pc = "initialize" /\ sessions = <<>> /\ exitStatus' = exitStatus
  BY DEF OpenInitialize, Inv, ControlOK, Active
<1>2. sessions' = <<>> /\ sessions' \in Seq(Session)
  <2>1. sessions' = <<>>
    BY <1>1, Zenon DEF OpenInitialize, ResetModule
  <2>2. QED
    BY <2>1
<1>3. CASE pc' = "construct"
  BY <1>1, <1>2, <1>3, Unseen
<1>4. CASE pc' = "exit" /\ call' = [call EXCEPT !.code = OpenFailure]
  <2>1. call'.code = OpenFailure
    BY <1>4 DEF Inv, TypeOK, Call
  <2>2. AbsCodes' = AbsCodes /\ AbsCodes = <<>> /\ AbsVerdict' = 0
    BY <1>1, <1>2, <1>4, ViewNow, ViewNext
  <2>3. AbsDue = {} /\ AbsDue' = {OpenFailure}
    BY <1>1, <1>4, <2>1, ViewOfDue
  <2>4. QED
    BY <1>1, <2>2, <2>3, StepFailToOpen
<1>5. QED
  BY <1>3, <1>4 DEF OpenInitialize

LEMMA ConstructStep ==
    ASSUME Inv, Inv', NEW a \in App, NEW rpt \in RebootPassThru, NEW ts \in TerminalServer,
           Construct(a, rpt, ts)
    PROVE  VerdictStep
<1>1. /\ pc = "construct" /\ pc' \in {"finalize", "ctorFailed"}
      /\ lastExitCode' = lastExitCode /\ exitStatus' = exitStatus
  BY DEF Construct, DetectWim
<1>2. sessions' = sessions \/ \E w \in Wim : sessions' = RecordMount(w)
  BY Zenon DEF Construct, DetectWim
<1>3. Codes(sessions') = Codes(sessions)
  BY <1>2, CodesOfRecordMount DEF Inv, TypeOK
<1>4. QED
  BY <1>1, <1>3, Unseen

LEMMA FinalizeStep ==
    ASSUME Inv, Inv', OpeningInv, Finalize
    PROVE  VerdictStep
<1>1. /\ pc = "finalize" /\ pc' = "openCallbacks" /\ sessions' = sessions \o building
      /\ lastExitCode' = lastExitCode /\ exitStatus' = exitStatus
  BY DEF Finalize
<1>2. /\ sessions \in Seq(Session) /\ building \in Seq(Session)
      /\ building # <<>> /\ Len(building) <= 1
  BY <1>1 DEF Inv, TypeOK, ControlOK
<1>3. PICK s \in Session : building = <<s>>
  <2>1. PICK n \in Nat : n = Len(building) /\ n # 0
    BY <1>2
  <2>2. n <= 1
    BY <1>2, <2>1, Zenon
  <2>3. Len(building) = 1 /\ building[1] \in Session
    BY <1>2, <2>1, <2>2
  <2>4. building = <<building[1]>>
    BY <1>2, <2>3
  <2>5. QED
    BY <2>3, <2>4
<1>4. s.exitCode = 0
  BY <1>1, <1>3 DEF OpeningInv
<1>5. Codes(sessions') = Append(Codes(sessions), 0)
  BY <1>1, <1>2, <1>3, <1>4, CodesOfAppend, Zenon
<1>6. sessions' \in Seq(Session) /\ sessions' # <<>>
  BY <1>1, <1>2, <1>3
<1>7. AbsCodes' = Append(AbsCodes, 0)
  BY <1>1, <1>5, <1>6, ViewNow, ViewNext, Zenon
<1>8. AbsVerdict' = AbsVerdict
  BY <1>1, <1>6, ViewNow, ViewNext DEF OpeningInv
<1>9. AbsDue = {} /\ AbsDue' = AbsDue
  BY <1>1, ViewOfDue
<1>10. QED
  BY <1>1, <1>7, <1>8, <1>9, StepBegin, Zenon

LEMMA ConstructorFailedStep ==
    ASSUME Inv, Inv', ConstructorFailed
    PROVE  VerdictStep
BY Unseen DEF ConstructorFailed, module

LEMMA CallbackStep ==
    ASSUME Inv, Inv', InvokeCallback \/ CallbacksDone
    PROVE  VerdictStep
BY Unseen DEF InvokeCallback, CallbacksDone, CallbackPhases, module

LEMMA OpenFailsStep ==
    ASSUME Inv, Inv', OpenFails
    PROVE  VerdictStep
<1>1. Active /\ {OpenFailure} \in Given /\ FALSE \in BOOLEAN /\ pc = "openCallbacks"
  BY CodeAssumption DEF OpenFails, Inv, ControlOK, CallbackPhases, Given
<1>2. QED
  BY <1>1, StartClosingStep DEF OpenFails

LEMMA ExitStep ==
    ASSUME Inv, Inv', ExitADTInvocation
    PROVE  VerdictStep
<1>1. /\ pc = "exit" /\ sessions' = sessions /\ lastExitCode' = lastExitCode
      /\ sessions' \in Seq(Session)
  BY DEF ExitADTInvocation, Inv, TypeOK
<1>2. call.code \in AbsDue
  BY <1>1, ViewOfDue
<1>3. CASE call.noExit /\ ~call.force
  <2>1. pc' = "script" /\ exitStatus' = [how |-> "returned", code |-> call.code]
    BY <1>3 DEF ExitADTInvocation
  <2>2. AbsCodes' = AbsCodes /\ AbsVerdict' = AbsVerdict /\ AbsDue' = {}
    BY <1>1, <2>1, ViewNow, ViewNext, ViewOfDue
  <2>3. QED
    BY <1>2, <2>1, <2>2, StepReport, Zenon
<1>4. CASE ~(call.noExit /\ ~call.force)
  <2>1. pc' = "ended" /\ exitStatus' = [how |-> "exited", code |-> call.code]
    BY <1>4 DEF ExitADTInvocation
  <2>2. AbsCodes' = <<>> /\ AbsVerdict' = 0 /\ AbsDue' = {}
    BY <2>1, ViewEnded
  <2>3. QED
    BY <1>2, <2>1, <2>2, StepReport, Zenon
<1>5. QED
  BY <1>3, <1>4

-----------------------------------------------------------------------------
(* Close: the result of the session enters the verdict. *)
LEMMA FinalCodeResult ==
    ASSUME NEW s
    PROVE  /\ FinalCode(s) \in Verdict!Results(s.exitCode)
           /\ Completed(s) => 0 \in Verdict!Results(s.exitCode)
BY DEF FinalCode, ClosedAs, Completed, Successful, Status, Verdict!Results, Verdict!Successful,
       Verdict!Status

\* A session whose constructor failed: its close is the failure to open.
LEMMA CloseBuildingStep ==
    ASSUME Inv, Inv', OpeningInv, Close, building # <<>>
    PROVE  VerdictStep
<1>1. /\ pc = "close" /\ pc' = "exit" /\ sessions' = sessions /\ exitStatus' = exitStatus
      /\ sessions' \in Seq(Session)
  BY DEF Close, CloseSucceeds, CloseThrowsAtHistory, CloseThrowsAtSubst, ReturnFromClose,
         RemoveTarget, Inv, TypeOK
<1>2. call'.code = OpenFailure
  BY DEF Close, CloseSucceeds, CloseThrowsAtHistory, CloseThrowsAtSubst, ReturnFromClose,
         Inv, TypeOK, Call
<1>3. Target.exitCode = OpenFailure
  BY <1>1 DEF Target, OpeningInv
<1>4. lastExitCode' \in {lastExitCode, OpenFailure}
  BY <1>3 DEF Close, CloseSucceeds, CloseThrowsAtHistory, CloseThrowsAtSubst, RecordExitCode,
              FinalCode, ClosedAs
<1>5. AbsCodes' = AbsCodes
  BY <1>1, ViewNow, ViewNext
<1>6. /\ AbsCodes = <<>> => AbsVerdict' = 0
      /\ AbsCodes # <<>> => AbsVerdict' \in {AbsVerdict, OpenFailure}
  BY <1>1, <1>4, ViewNow, ViewNext
<1>7. AbsDue = {} /\ AbsDue' = {OpenFailure}
  BY <1>1, <1>2, ViewOfDue
<1>8. QED
  BY <1>1, <1>5, <1>6, <1>7, StepFailToOpen, Zenon

\* What the three ways to end Close make of LastExitCode and of the exit code.
LEMMA CloseOutcome ==
    ASSUME Inv, Close, building = <<>>, NEW v, v = IF FinalCode(Target) = 0 THEN lastExitCode
                                                   ELSE FinalCode(Target)
    PROVE  \E failed \in BOOLEAN :
               /\ ReturnFromClose(IF failed THEN Unhandled ELSE v)
               /\ \/ lastExitCode' = v
                  \/ failed /\ Completed(Target) /\ lastExitCode' = lastExitCode
<1>1. RecordExitCode => lastExitCode' = v
  BY DEF RecordExitCode
<1>2. CASE CloseSucceeds
  <2>1. ReturnFromClose(v) /\ lastExitCode' = v
    BY <1>1, <1>2, Zenon DEF CloseSucceeds
  <2>2. QED
    BY <2>1, Zenon
<1>3. CASE CloseThrowsAtHistory
  BY <1>3, Zenon DEF CloseThrowsAtHistory
<1>4. CASE CloseThrowsAtSubst
  BY <1>1, <1>4, Zenon DEF CloseThrowsAtSubst
<1>5. QED
  BY <1>2, <1>3, <1>4, Zenon DEF Close

LEMMA CloseListedStep ==
    ASSUME Inv, Inv', Close, building = <<>>
    PROVE  VerdictStep
<1> DEFINE v == IF FinalCode(Target) = 0 THEN lastExitCode ELSE FinalCode(Target)
<1>1. /\ pc = "close" /\ exitStatus' = exitStatus
      /\ sessions \in Seq(Session) /\ sessions' \in Seq(Session)
      /\ Active /\ Target = Last(sessions) /\ sessions' = Front(sessions)
  BY DEF Close, CloseSucceeds, CloseThrowsAtHistory, CloseThrowsAtSubst, RemoveTarget, Target,
         Inv, TypeOK, ControlOK
<1>2. PICK failed \in BOOLEAN :
          /\ ReturnFromClose(IF failed THEN Unhandled ELSE v)
          /\ \/ lastExitCode' = v
             \/ failed /\ Completed(Target) /\ lastExitCode' = lastExitCode
  BY CloseOutcome
<1>3. /\ AbsCodes = Codes(sessions) /\ AbsCodes # <<>> /\ AbsVerdict = lastExitCode
      /\ Len(AbsCodes) = Len(sessions)
  BY <1>1, ViewNow, CodesType DEF Active
<1>4. Last(AbsCodes) = Target.exitCode /\ Front(AbsCodes) = Codes(sessions')
  BY <1>1, <1>3, CodesOfLast
<1>5. /\ FinalCode(Target) \in Verdict!Results(Last(AbsCodes))
      /\ Completed(Target) => 0 \in Verdict!Results(Last(AbsCodes))
  BY <1>4, FinalCodeResult
<1>6. pc' \in {"exit", "script"}
  BY <1>2 DEF ReturnFromClose
<1>7. /\ AbsCodes' = Front(AbsCodes)
      /\ AbsVerdict' = IF sessions' = <<>> THEN 0 ELSE lastExitCode'
  BY <1>1, <1>4, <1>6, ViewNext
<1>8. Verdict!Latest(FinalCode(Target)) = v
  BY <1>3 DEF Verdict!Latest, AbsVerdict
<1>9. AbsDue = {}
  BY <1>1, ViewOfDue
<1>10. Outcome(FinalCode(Target), failed)
  <2>1. CASE Len(sessions) = 1
    <3>1. pc' = "exit" /\ call'.code = IF failed THEN Unhandled ELSE v
      <4>1. \A x, g, f : [call EXCEPT !.code = x, !.noExit = g, !.force = f].code = x
        BY DEF Inv, TypeOK, Call
      <4>2. /\ pc' = "exit"
            /\ call' = [call EXCEPT !.code = IF failed THEN Unhandled ELSE v,
                                   !.noExit = Target.noExit,
                                   !.force = @ \/ (ConsoleHost /\ call.cbError)]
        BY <1>2, <2>1 DEF ReturnFromClose
      <4>3. QED
        BY <4>1, <4>2, Zenon
    <3>2. sessions' = <<>>
      BY <1>1, <2>1, TopType
    <3>3. AbsDue' = {IF failed THEN Unhandled ELSE v} /\ AbsVerdict' = 0
      BY <1>7, <3>1, <3>2, ViewOfDue
    <3>4. Verdict!Unhandled = Unhandled
      BY DEF Unhandled, Verdict!Unhandled
    <3>5. QED
      BY <1>3, <1>8, <2>1, <3>3, <3>4, Zenon DEF Outcome
  <2>2. CASE Len(sessions) # 1
    <3>1. pc' = "script" /\ Len(sessions) > 1
      BY <1>2, <2>2 DEF ReturnFromClose
    <3>2. sessions' # <<>>
      BY <1>1, <3>1, TopType
    <3>3. AbsDue' = AbsDue /\ AbsVerdict' = lastExitCode'
      BY <1>7, <1>9, <3>1, <3>2, ViewOfDue
    <3>4. QED
      BY <1>2, <1>3, <1>5, <1>8, <2>2, <3>3, Zenon DEF Outcome
  <2>3. QED
    BY <2>1, <2>2
<1>11. QED
  BY <1>1, <1>3, <1>5, <1>7, <1>9, <1>10, StepFinish, Zenon

LEMMA CallStepStep == Inv /\ Inv' /\ OpeningInv /\ CallStep => VerdictStep
<1> SUFFICES ASSUME Inv, Inv', OpeningInv, CallStep
             PROVE  VerdictStep
  OBVIOUS
<1>1. CASE Close
  BY <1>1, CloseBuildingStep, CloseListedStep
<1>2. CASE ~Close
  BY <1>2, OpenInitializeStep, ConstructStep, FinalizeStep, ConstructorFailedStep, CallbackStep,
     OpenFailsStep, ExitStep, Zenon DEF CallStep
<1>3. QED
  BY <1>1, <1>2

LEMMA EnvironmentStep ==
    ASSUME Inv, Inv', Killed \/ NewHost
    PROVE  VerdictStep
<1>1. CASE Killed
  <2>1. pc' = "ended" /\ exitStatus' = [how |-> "killed", code |-> 0]
    BY <1>1 DEF Killed
  <2>2. QED
    BY <2>1, ViewEnded, StepAbandon
<1>2. CASE NewHost
  <2>1. /\ pc = "ended" /\ pc' = "script" /\ sessions' = <<>>
        /\ exitStatus' = [how |-> "running", code |-> 0] /\ sessions' \in Seq(Session)
    BY <1>2 DEF NewHost, Running, Inv, TypeOK
  <2>2. AbsCodes = <<>> /\ AbsVerdict = 0 /\ AbsDue = {}
    BY <2>1, ViewEnded
  <2>3. AbsCodes' = <<>> /\ AbsVerdict' = 0 /\ AbsDue' = {}
    BY <2>1, ViewNext, ViewOfDue
  <2>4. QED
    BY <2>1, <2>2, <2>3, StepNewHost
<1>3. QED
  BY <1>1, <1>2

LEMMA EveryStep == Inv /\ Inv' /\ OpeningInv /\ [Next]_vars => VerdictStep
<1> SUFFICES ASSUME Inv, Inv', OpeningInv, [Next]_vars
             PROVE  VerdictStep
  OBVIOUS
<1>1. CASE UNCHANGED vars
  <2>1. AbsCodes' = AbsCodes /\ AbsVerdict' = AbsVerdict /\ AbsDue' = AbsDue
        /\ exitStatus' = exitStatus
    BY <1>1 DEF vars, module, AbsCodes, AbsVerdict, AbsDue, Open
  <2>2. QED
    BY <2>1, StepStutter
<1>2. CASE Next
  BY <1>2, ScriptOperationStep, CallStepStep, EnvironmentStep DEF Next
<1>3. QED
  BY <1>1, <1>2

LEMMA InitVerdict == Init => Verdict!Init
<1> SUFFICES ASSUME Init
             PROVE  Verdict!Init
  OBVIOUS
<1>1. Open = <<>> /\ pc = "script" /\ exitStatus = [how |-> "running", code |-> 0]
  BY DEF Init, Open, Running
<1>2. [i \in DOMAIN Open |-> Open[i].exitCode] = <<>>
  BY <1>1
<1>3. QED
  BY <1>1, <1>2 DEF Verdict!Init

(* What a first session inherits and what a session being constructed has    *)
(* as its exit code: the state the constructor of DeploymentSession leaves.  *)
THEOREM OpeningsStartClean == Spec => []OpeningInv
BY Invariant, InitOpening, NextOpening, PTL DEF Spec

(* The deployment sessions keep the promise of DeploymentVerdict: the exit   *)
(* code the host hands back is 60008 for a session that could not be opened, *)
(* else the last non-zero result of the sessions closed, or 60001 when the   *)
(* last close failed.  Every operation of Open-ADTSession, Close-ADTSession, *)
(* DeploymentSession.Close and Exit-ADTInvocation, every callback and every  *)
(* kill of the host is a step the promise allows.                            *)
THEOREM SessionsKeepTheVerdict == Spec => KeepsVerdict
<1>1. Inv /\ Inv' /\ OpeningInv /\ [Next]_vars => Verdict!Next \/ UNCHANGED Verdict!vars
  BY EveryStep, Zenon DEF VerdictStep
<1>2. QED
  BY <1>1, InitVerdict, Invariant, OpeningsStartClean, PTL
     DEF Spec, KeepsVerdict, Verdict!Spec
=============================================================================
