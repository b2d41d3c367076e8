---------------------- MODULE ProcessExecution_proofs ----------------------
(***************************************************************************)
(* Theorems about ProcessExecution: types, the return of the MSI mutex,    *)
(* and what a deployment reports whose script an installer has ended, for  *)
(* any number of hosts, installers, calls and exit codes.                  *)
(***************************************************************************)
EXTENDS ProcessExecution, TLAPS

\* While a host is in a call, it knows the call.
CallOK == \A h \in Host : pc[h] \notin AtScript => \E c \in Call : call[h] = <<c>>

\* The error that ended a script is still in the session's code.
BlameOK ==
    \A h \in Host : \A b \in blame[h] :
        /\ pc[h] \in {"failed", "closed"}
        /\ b.codes = {} \/ \E c \in Int : b.codes = {c}
        /\ b.cause = "busy" => b.codes = {Busy}
        /\ pc[h] = "failed" /\ b.call.via = "script"
             => \A c \in b.codes : exitCode[h] = c

Inv == TypeOK /\ CallOK /\ NothingHeld /\ BlameOK /\ FailureReported

-----------------------------------------------------------------------------
LEMMA CallFields == \A c \in Call : /\ c.onError \in {"Stop", "Continue", "Silent"}
                                    /\ c.noWait \in BOOLEAN /\ c.timeout \in Nat
BY CallAssumption DEF CallType

LEMMA IdleType ==
    Idle \in InstallerType
BY DEF Idle, InstallerType

LEMMA InitInv == Init => Inv
<1> SUFFICES ASSUME Init PROVE Inv
  OBVIOUS
<1>1. TypeOK
  <2>1. installer \in [Installer -> InstallerType]
    BY IdleType DEF Init
  <2>2. blame \in [Host -> SUBSET [call : Call, cause : {"busy", "error"}, codes : SUBSET Int]]
    BY DEF Init
  <2>3. call \in [Host -> {<<>>} \cup {<<c>> : c \in Call}]
    BY DEF Init
  <2>4. /\ pc \in [Host -> PC] /\ waited \in [Host -> Nat] /\ exitCode \in [Host -> Int]
        /\ calls \in [Host -> Nat] /\ seen \in [Host -> SUBSET Int]
    BY DEF Init, PC, AtScript
  <2>5. free \in [Host -> BOOLEAN] /\ nozone \in [Host -> BOOLEAN] /\ passThru \in [Host -> BOOLEAN]
    BY DEF Init
  <2>6. owner \in SUBSET (Host \cup Installer) /\ abandoned \in BOOLEAN
    BY DEF Init
  <2>7. QED
    BY <2>1, <2>2, <2>3, <2>4, <2>5, <2>6 DEF TypeOK
<1>2. CallOK /\ NothingHeld /\ BlameOK /\ FailureReported
  BY DEF Init, CallOK, NothingHeld, BlameOK, FailureReported, AtScript
<1>3. QED
  BY <1>1, <1>2 DEF Inv

-----------------------------------------------------------------------------
\* What a step of one host leaves of the invariant if it touches no other host.
Others(h) ==
    \A g \in Host \ {h} :
        /\ pc'[g] = pc[g] /\ call'[g] = call[g] /\ nozone'[g] = nozone[g]
        /\ exitCode'[g] = exitCode[g] /\ blame'[g] = blame[g]
        /\ (g \in owner') <=> (g \in owner)

LEMMA OneHost ==
    ASSUME Inv, TypeOK', NEW h \in Host, Others(h),
           pc'[h] \notin AtScript => \E c \in Call : call'[h] = <<c>>,
           (h \in owner') <=> (pc'[h] = "held"),
           nozone'[h] => pc'[h] = "running",
           \A b \in blame'[h] :
              /\ pc'[h] \in {"failed", "closed"}
              /\ b.codes = {} \/ \E c \in Int : b.codes = {c}
              /\ b.cause = "busy" => b.codes = {Busy}
              /\ pc'[h] = "failed" /\ b.call.via = "script"
                   => \A c \in b.codes : exitCode'[h] = c,
           \A b \in blame'[h] : \A c \in b.codes :
              pc'[h] = "closed" /\ b.call.via = "script" /\ ~Successful(c)
                => exitCode'[h] = IF c = 0 THEN Unhandled ELSE c
    PROVE  Inv'
<1>1. CallOK'
  BY DEF Inv, CallOK, Others
<1>2. NothingHeld'
  BY DEF Inv, NothingHeld, Others
<1>3. BlameOK'
  <2>1. SUFFICES ASSUME NEW g \in Host, NEW b \in blame'[g]
                 PROVE  /\ pc'[g] \in {"failed", "closed"}
                        /\ b.codes = {} \/ \E c \in Int : b.codes = {c}
                        /\ b.cause = "busy" => b.codes = {Busy}
                        /\ pc'[g] = "failed" /\ b.call.via = "script"
                             => \A c \in b.codes : exitCode'[g] = c
    BY DEF BlameOK
  <2>2. CASE g = h
    BY <2>2
  <2>3. CASE g # h
    <3>1. pc'[g] = pc[g] /\ exitCode'[g] = exitCode[g] /\ blame'[g] = blame[g]
      BY <2>3 DEF Others
    <3>2. QED
      BY <2>1, <3>1 DEF Inv, BlameOK
  <2>4. QED
    BY <2>2, <2>3
<1>4. FailureReported'
  <2>1. SUFFICES ASSUME NEW g \in Host, NEW b \in blame'[g], NEW c \in b.codes,
                        pc'[g] = "closed", b.call.via = "script", ~Successful(c)
                 PROVE  exitCode'[g] = IF c = 0 THEN Unhandled ELSE c
    BY DEF FailureReported
  <2>2. CASE g = h
    BY <2>1, <2>2
  <2>3. CASE g # h
    <3>1. pc'[g] = pc[g] /\ exitCode'[g] = exitCode[g] /\ blame'[g] = blame[g]
      BY <2>3 DEF Others
    <3>2. QED
      BY <2>1, <3>1 DEF Inv, FailureReported
  <2>4. QED
    BY <2>2, <2>3
<1>5. QED
  BY <1>1, <1>2, <1>3, <1>4 DEF Inv

-----------------------------------------------------------------------------
(* A call that throws.                                                      *)
LEMMA ThrowStep ==
    ASSUME Inv, NEW h \in Host, NEW c \in Call, NEW cause \in {"busy", "error"},
           NEW codes \in SUBSET Int, codes = {} \/ \E k \in Int : codes = {k},
           cause = "busy" => codes = {Busy},
           pc[h] # "closed", blame[h] = {}, pc[h] # "held",
           Throw(h, c, cause, codes),
           owner' = owner, abandoned' = abandoned, passThru' = passThru,
           installer' \in [Installer -> InstallerType],
           calls' \in [Host -> Nat]
    PROVE  Inv'
<1>1. /\ call' = [call EXCEPT ![h] = <<>>]
      /\ waited' = [waited EXCEPT ![h] = 0]
      /\ free' = [free EXCEPT ![h] = FALSE]
      /\ nozone' = [nozone EXCEPT ![h] = FALSE]
      /\ seen' = [seen EXCEPT ![h] = @ \cup codes]
  BY DEF Throw, Raise, ForgetCall
<1>2. /\ c.onError = "Stop" => /\ pc' = [pc EXCEPT ![h] = "failed"]
                               /\ blame' = [blame EXCEPT ![h] =
                                     {[call |-> c, cause |-> cause, codes |-> codes]}]
      /\ c.onError # "Stop" => pc' = [pc EXCEPT ![h] = "script"] /\ blame' = blame
  BY DEF Throw, Raise, Goto
<1>3. /\ exitCode' \in [Host -> Int]
      /\ \A g \in Host \ {h} : exitCode'[g] = exitCode[g]
      /\ c.via = "script" /\ c.onError = "Stop" => \A k \in codes : exitCode'[h] = k
  <2>1. DEFINE new == IF SetsCode(c, c.onError # "Silent") /\ codes # {}
                      THEN CHOOSE code \in codes : TRUE ELSE exitCode[h]
  <2>2. exitCode' = [exitCode EXCEPT ![h] = new]
    BY DEF Throw
  <2>3. codes # {} => (CHOOSE code \in codes : TRUE) \in codes
    OBVIOUS
  <2>4. new \in Int
    BY <2>3 DEF Inv, TypeOK
  <2>5. c.via = "script" /\ c.onError = "Stop" => \A k \in codes : new = k
    BY <2>3 DEF SetsCode
  <2>6. HIDE DEF new
  <2>7. QED
    BY <2>2, <2>4, <2>5 DEF Inv, TypeOK
<1>4. TypeOK'
  <2>1. pc' \in [Host -> PC]
    BY <1>2 DEF Inv, TypeOK, PC, AtScript
  <2>2. blame' \in [Host -> SUBSET [call : Call, cause : {"busy", "error"}, codes : SUBSET Int]]
    <3>1. {[call |-> c, cause |-> cause, codes |-> codes]}
            \in SUBSET [call : Call, cause : {"busy", "error"}, codes : SUBSET Int]
      OBVIOUS
    <3>2. QED
      BY <1>2, <3>1 DEF Inv, TypeOK
  <2>3. call' \in [Host -> {<<>>} \cup {<<k>> : k \in Call}]
    BY <1>1 DEF Inv, TypeOK
  <2>4. free' \in [Host -> BOOLEAN] /\ nozone' \in [Host -> BOOLEAN]
    BY <1>1 DEF Inv, TypeOK
  <2>5. waited' \in [Host -> Nat] /\ seen' \in [Host -> SUBSET Int]
    BY <1>1 DEF Inv, TypeOK
  <2>6. /\ owner' \in SUBSET (Host \cup Installer) /\ abandoned' \in BOOLEAN
        /\ passThru' \in [Host -> BOOLEAN]
    BY DEF Inv, TypeOK
  <2>7. QED
    BY <2>1, <2>2, <2>3, <2>4, <2>5, <2>6, <1>3 DEF TypeOK
<1>5. pc'[h] \in {"failed", "script"} /\ ~nozone'[h]
  BY <1>1, <1>2 DEF Inv, TypeOK
<1>6. Others(h)
  <2>1. \A g \in Host \ {h} : pc'[g] = pc[g] /\ blame'[g] = blame[g]
    BY <1>2 DEF Inv, TypeOK
  <2>2. \A g \in Host \ {h} : call'[g] = call[g] /\ nozone'[g] = nozone[g]
    BY <1>1 DEF Inv, TypeOK
  <2>3. QED
    BY <2>1, <2>2, <1>3 DEF Others
<1>7. h \notin owner'
  BY DEF Inv, NothingHeld
<1>8. \A b \in blame'[h] :
        /\ pc'[h] \in {"failed", "closed"}
        /\ b.codes = {} \/ \E k \in Int : b.codes = {k}
        /\ b.cause = "busy" => b.codes = {Busy}
        /\ pc'[h] = "failed" /\ b.call.via = "script" => \A k \in b.codes : exitCode'[h] = k
  <2>1. CASE c.onError = "Stop"
    <3>1. blame'[h] = {[call |-> c, cause |-> cause, codes |-> codes]} /\ pc'[h] = "failed"
      BY <2>1, <1>2 DEF Inv, TypeOK
    <3>2. QED
      BY <3>1, <2>1, <1>3
  <2>2. CASE c.onError # "Stop"
    BY <2>2, <1>2 DEF Inv, TypeOK
  <2>3. QED
    BY <2>1, <2>2
<1>9. QED
  BY <1>4, <1>5, <1>6, <1>7, <1>8, OneHost DEF AtScript

-----------------------------------------------------------------------------
LEMMA InCallFacts ==
    ASSUME Inv, NEW h \in Host, pc[h] \notin AtScript
    PROVE  blame[h] = {} /\ \E c \in Call : call[h] = <<c>> /\ call[h][1] = c
<1>1. \A b \in blame[h] : FALSE
  BY DEF Inv, BlameOK, AtScript
<1>2. blame[h] = {}
  BY <1>1
<1>3. PICK c \in Call : call[h] = <<c>>
  BY DEF Inv, CallOK
<1>4. QED
  BY <1>2, <1>3

LEMMA NoBlameAtScript ==
    ASSUME Inv, NEW h \in Host, pc[h] = "script"
    PROVE  blame[h] = {}
BY DEF Inv, BlameOK

LEMMA OpenInv == ASSUME Inv, NEW h \in Host, Open(h) PROVE Inv'
<1>1. PICK p \in BOOLEAN : passThru' = [passThru EXCEPT ![h] = p]
  BY DEF Open
<1>2. TypeOK'
  <2>1. passThru' \in [Host -> BOOLEAN]
    BY <1>1 DEF Inv, TypeOK
  <2>2. pc' \in [Host -> PC] /\ exitCode' \in [Host -> Int] /\ calls' \in [Host -> Nat]
    BY DEF Open, Goto, Inv, TypeOK, PC, AtScript
  <2>3. /\ seen' \in [Host -> SUBSET Int]
        /\ blame' \in [Host -> SUBSET [call : Call, cause : {"busy", "error"}, codes : SUBSET Int]]
    BY DEF Open, Inv, TypeOK
  <2>4. QED
    BY <2>1, <2>2, <2>3 DEF Open, machine, local, Inv, TypeOK
<1>3. Others(h) /\ pc'[h] = "script" /\ blame'[h] = {} /\ nozone'[h] = nozone[h] /\ owner' = owner
  BY DEF Open, Goto, machine, local, Others, Inv, TypeOK
<1>4. QED
  BY <1>2, <1>3, OneHost DEF Open, AtScript, Inv, NothingHeld

LEMMA BeginInv == ASSUME Inv, NEW h \in Host, Begin(h) PROVE Inv'
<1>1. PICK c \in Call, opened \in {"refused", "failed", "opened"} :
         /\ call' = [call EXCEPT ![h] = <<c>>]
         /\ Goto(h, IF ~Checks(c) THEN "start"
                    ELSE IF MutexExists /\ opened = "opened" THEN "waiting"
                    ELSE "pause")
         /\ free' = [free EXCEPT ![h] = Checks(c) /\ (~MutexExists \/ opened = "failed")]
  BY DEF Begin
<1>2. pc' \in [Host -> PC] /\ pc'[h] \in {"start", "waiting", "pause"}
      /\ \A g \in Host \ {h} : pc'[g] = pc[g]
  BY <1>1 DEF Goto, Inv, TypeOK, PC
<1>3. TypeOK'
  <2>1. call' \in [Host -> {<<>>} \cup {<<k>> : k \in Call}]
    BY <1>1 DEF Inv, TypeOK
  <2>2. (Checks(c) /\ (~MutexExists \/ opened = "failed")) \in BOOLEAN
    OBVIOUS
  <2>3. free' \in [Host -> BOOLEAN]
    BY <1>1, <2>2 DEF Inv, TypeOK
  <2>4. calls' \in [Host -> Nat]
    BY DEF Begin, Inv, TypeOK
  <2>5. QED
    BY <1>2, <2>1, <2>3, <2>4 DEF Begin, machine, Inv, TypeOK
<1>4. Others(h) /\ call'[h] = <<c>>
  BY <1>1, <1>2 DEF Begin, machine, Others, Inv, TypeOK
<1>5. blame'[h] = {} /\ ~nozone'[h] /\ owner' = owner /\ h \notin owner
  BY NoBlameAtScript DEF Begin, machine, Inv, NothingHeld
<1>6. QED
  BY <1>2, <1>3, <1>4, <1>5, OneHost

LEMMA NotFoundInv == ASSUME Inv, NEW h \in Host, NotFound(h) PROVE Inv'
<1>1. PICK c \in Call : Throw(h, c, "error", {})
  BY DEF NotFound
<1>2. calls' \in [Host -> Nat]
  BY DEF NotFound, Inv, TypeOK
<1>3. QED
  BY <1>1, <1>2, NoBlameAtScript, ThrowStep DEF NotFound, machine, Inv, TypeOK

-----------------------------------------------------------------------------
(* The check of the mutex.                                                  *)
LEMMA WaitRejectedInv == ASSUME Inv, NEW h \in Host, WaitRejected(h) PROVE Inv'
<1>1. PICK c \in Call : call[h] = <<c>> /\ call[h][1] = c
  BY InCallFacts DEF WaitRejected, AtScript
<1>2. Throw(h, c, "error", {}) /\ blame[h] = {} /\ pc[h] = "waiting"
  BY <1>1, InCallFacts DEF WaitRejected, AtScript
<1>3. QED
  BY <1>2, ThrowStep DEF WaitRejected, machine, Inv, TypeOK

\* A step of a call that neither ends it nor touches an installer.
LEMMA WithinCall ==
    ASSUME Inv, NEW h \in Host, pc[h] \notin AtScript, NEW l \in PC \ AtScript, Goto(h, l),
           owner' \in SUBSET (Host \cup Installer), abandoned' \in BOOLEAN,
           \A g \in Host \ {h} : (g \in owner') <=> (g \in owner),
           (h \in owner') <=> l = "held", l = "running" \/ ~nozone[h],
           waited' \in [Host -> Nat], free' \in [Host -> BOOLEAN],
           UNCHANGED <<installer, call, nozone, session>>
    PROVE  Inv'
<1>1. pc' = [pc EXCEPT ![h] = l] /\ pc' \in [Host -> PC] /\ pc'[h] = l
  BY DEF Goto, Inv, TypeOK
<1>2. TypeOK'
  BY <1>1 DEF session, Inv, TypeOK
<1>3. Others(h)
  BY <1>1 DEF session, Others, Inv, TypeOK
<1>4. blame'[h] = {} /\ \E c \in Call : call'[h] = <<c>>
  BY InCallFacts DEF session
<1>5. QED
  BY <1>1, <1>2, <1>3, <1>4, OneHost

LEMMA NotRunning ==
    ASSUME Inv, NEW h \in Host, pc[h] # "running"
    PROVE  ~nozone[h]
BY DEF Inv, NothingHeld

LEMMA AcquireInv == ASSUME Inv, NEW h \in Host, Acquire(h) PROVE Inv'
<1>1. Goto(h, "held") /\ pc[h] = "waiting" /\ owner' = {h} /\ owner = {} /\ abandoned' = FALSE
      /\ UNCHANGED <<installer, call, waited, nozone, session>>
  BY DEF Acquire
<1>2. free' \in [Host -> BOOLEAN]
  BY DEF Acquire, Inv, TypeOK
<1>3. waited' \in [Host -> Nat] /\ ~nozone[h]
  BY <1>1, NotRunning DEF Inv, TypeOK
<1>4. QED
  BY <1>1, <1>2, <1>3, WithinCall DEF PC, AtScript

LEMMA ReleaseInv == ASSUME Inv, NEW h \in Host, Release(h) PROVE Inv'
<1>1. Goto(h, "pause") /\ pc[h] = "held" /\ owner' = owner \ {h} /\ abandoned' = abandoned
      /\ UNCHANGED <<installer, call, nozone, session>> /\ waited' = waited /\ free' = free
  BY DEF Release, local
<1>2. waited' \in [Host -> Nat] /\ free' \in [Host -> BOOLEAN] /\ ~nozone[h]
      /\ owner \in SUBSET (Host \cup Installer) /\ abandoned \in BOOLEAN
  BY <1>1, NotRunning DEF Inv, TypeOK
<1>3. QED
  BY <1>1, <1>2, WithinCall DEF PC, AtScript

LEMMA TickInv == ASSUME Inv, NEW h \in Host, Tick(h) PROVE Inv'
<1>1. pc' = pc /\ pc[h] = "waiting" /\ owner' = owner /\ abandoned' = abandoned
      /\ UNCHANGED <<installer, call, nozone, session>> /\ free' = free
  BY DEF Tick, machine
<1>2. waited' \in [Host -> Nat]
  BY DEF Tick, Inv, TypeOK
<1>3. free' \in [Host -> BOOLEAN] /\ ~nozone[h] /\ h \notin owner /\ Goto(h, "waiting")
      /\ owner \in SUBSET (Host \cup Installer) /\ abandoned \in BOOLEAN
  BY <1>1, NotRunning DEF Goto, NothingHeld, Inv, TypeOK
<1>4. QED
  BY <1>1, <1>2, <1>3, WithinCall DEF PC, AtScript

LEMMA TimedOutInv == ASSUME Inv, NEW h \in Host, TimedOut(h) PROVE Inv'
<1>1. Goto(h, "pause") /\ pc[h] = "waiting" /\ owner' = owner /\ abandoned' = abandoned
      /\ UNCHANGED <<installer, call, nozone, session>> /\ free' = free /\ waited' = waited
  BY DEF TimedOut, machine, local
<1>2. waited' \in [Host -> Nat] /\ free' \in [Host -> BOOLEAN] /\ ~nozone[h] /\ h \notin owner
      /\ owner \in SUBSET (Host \cup Installer) /\ abandoned \in BOOLEAN
  BY <1>1, NotRunning DEF NothingHeld, Inv, TypeOK
<1>3. QED
  BY <1>1, <1>2, WithinCall DEF PC, AtScript

LEMMA DecideInv == ASSUME Inv, NEW h \in Host, Decide(h) PROVE Inv'
<1>1. pc[h] = "pause" /\ owner' = owner /\ abandoned' = abandoned /\ installer' = installer
      /\ calls' = calls /\ passThru' = passThru
  BY DEF Decide, machine
<1>2. CASE free[h]
  <2>1. Goto(h, "start") /\ UNCHANGED <<local, exitCode, seen, blame>>
    BY <1>2 DEF Decide
  <2>2. waited' \in [Host -> Nat] /\ free' \in [Host -> BOOLEAN] /\ ~nozone[h] /\ h \notin owner
        /\ owner \in SUBSET (Host \cup Installer) /\ abandoned \in BOOLEAN
    BY <1>1, <2>1, NotRunning DEF local, NothingHeld, Inv, TypeOK
  <2>3. QED
    BY <1>1, <2>1, <2>2, WithinCall DEF local, session, PC, AtScript
<1>3. CASE ~free[h]
  <2>1. PICK c \in Call : call[h] = <<c>> /\ call[h][1] = c
    BY <1>1, InCallFacts DEF AtScript
  <2>2. Throw(h, c, "busy", {Busy}) /\ blame[h] = {} /\ {Busy} \in SUBSET Int
    BY <1>1, <1>3, <2>1, InCallFacts DEF Decide, AtScript, Busy
  <2>3. \E k \in Int : {Busy} = {k}
    BY DEF Busy
  <2>4. /\ installer' \in [Installer -> InstallerType]
        /\ calls' \in [Host -> Nat]
    BY <1>1 DEF Inv, TypeOK
  <2>5. pc[h] # "closed" /\ pc[h] # "held"
    BY <1>1
  <2>6. QED
    BY <1>1, <2>2, <2>3, <2>4, <2>5, ThrowStep
<1>4. QED
  BY <1>2, <1>3

-----------------------------------------------------------------------------
(* The process.                                                             *)
LEMMA ReturnStep ==
    ASSUME Inv, NEW h \in Host, pc[h] \in {"start", "running"}, ForgetCall(h), Goto(h, "script"),
           installer' \in [Installer -> InstallerType],
           exitCode' \in [Host -> Int], \A g \in Host \ {h} : exitCode'[g] = exitCode[g],
           seen' \in [Host -> SUBSET Int],
           UNCHANGED <<owner, abandoned, passThru, calls, blame>>
    PROVE  Inv'
<1>1. /\ pc' = [pc EXCEPT ![h] = "script"] /\ call' = [call EXCEPT ![h] = <<>>]
      /\ waited' = [waited EXCEPT ![h] = 0] /\ free' = [free EXCEPT ![h] = FALSE]
      /\ nozone' = [nozone EXCEPT ![h] = FALSE]
  BY DEF Goto, ForgetCall
<1>2. pc' \in [Host -> PC] /\ waited' \in [Host -> Nat]
      /\ call' \in [Host -> {<<>>} \cup {<<c>> : c \in Call}]
  BY <1>1 DEF Inv, TypeOK, PC, AtScript
<1>3. free' \in [Host -> BOOLEAN] /\ nozone' \in [Host -> BOOLEAN]
  BY <1>1 DEF Inv, TypeOK
<1>4. TypeOK'
  BY <1>2, <1>3 DEF Inv, TypeOK
<1>5. Others(h) /\ pc'[h] = "script" /\ ~nozone'[h]
  BY <1>1 DEF Others, Inv, TypeOK
<1>6. blame'[h] = {} /\ h \notin owner'
  BY InCallFacts DEF AtScript, NothingHeld, Inv
<1>7. QED
  BY <1>4, <1>5, <1>6, OneHost DEF AtScript

LEMMA StartProcessInv == ASSUME Inv, NEW h \in Host, StartProcess(h) PROVE Inv'
<1>1. PICK c \in Call : call[h] = <<c>> /\ call[h][1] = c
  BY InCallFacts DEF StartProcess, AtScript
<1>2. pc[h] = "start" /\ UNCHANGED <<owner, abandoned, session>>
  BY DEF StartProcess
<1>3. installer' \in [Installer -> InstallerType]
  <2>1. PICK i \in Installer : installer' = [installer EXCEPT ![i] =
              [state |-> "started", by |-> IF call[h][1].noWait THEN {} ELSE {h},
               msi |-> call[h][1].program = "msiexec", code |-> 0]]
    BY DEF StartProcess
  <2>2. [state |-> "started", by |-> IF call[h][1].noWait THEN {} ELSE {h},
         msi |-> call[h][1].program = "msiexec", code |-> 0]
          \in InstallerType
    <3>1. (call[h][1].program = "msiexec") \in BOOLEAN
      OBVIOUS
    <3>2. (IF call[h][1].noWait THEN {} ELSE {h}) \in SUBSET Host
      OBVIOUS
    <3>3. QED
      BY <3>1, <3>2 DEF InstallerType
  <2>3. QED
    BY <2>1, <2>2 DEF Inv, TypeOK
<1>4. CASE c.noWait
  <2>1. ForgetCall(h) /\ Goto(h, "script")
    BY <1>1, <1>4 DEF StartProcess
  <2>2. QED
    BY <1>2, <1>3, <2>1, ReturnStep DEF session, Inv, TypeOK
<1>5. CASE ~c.noWait
  <2>1. nozone' = [nozone EXCEPT ![h] = TRUE] /\ Goto(h, "running") /\ UNCHANGED <<call, waited, free>>
    BY <1>1, <1>5 DEF StartProcess
  <2>2. pc' \in [Host -> PC] /\ pc'[h] = "running" /\ \A g \in Host \ {h} : pc'[g] = pc[g]
    BY <2>1 DEF Goto, Inv, TypeOK, PC
  <2>3. nozone' \in [Host -> BOOLEAN] /\ \A g \in Host \ {h} : nozone'[g] = nozone[g]
    BY <2>1 DEF Inv, TypeOK
  <2>4. TypeOK'
    BY <1>2, <1>3, <2>1, <2>2, <2>3 DEF session, Inv, TypeOK
  <2>5. Others(h)
    BY <1>2, <2>1, <2>2, <2>3 DEF session, Others
  <2>6. blame'[h] = {} /\ call'[h] = <<c>> /\ h \notin owner'
    BY <1>1, <1>2, <2>1, InCallFacts DEF session, AtScript, NothingHeld, Inv
  <2>7. QED
    BY <2>2, <2>4, <2>5, <2>6, OneHost
<1>6. QED
  BY <1>4, <1>5

LEMMA StartFailsInv == ASSUME Inv, NEW h \in Host, StartFails(h) PROVE Inv'
<1>1. PICK c \in Call : call[h] = <<c>> /\ call[h][1] = c
  BY InCallFacts DEF StartFails, AtScript
<1>2. Throw(h, c, "error", {}) /\ blame[h] = {} /\ pc[h] = "start"
  BY <1>1, InCallFacts DEF StartFails, AtScript
<1>3. QED
  BY <1>2, ThrowStep DEF StartFails, machine, Inv, TypeOK

LEMMA FinishedInv == ASSUME Inv, NEW h \in Host, Finished(h) PROVE Inv'
<1>1. PICK c \in Call : call[h] = <<c>> /\ call[h][1] = c
  BY InCallFacts DEF Finished, AtScript
<1>2. PICK i \in Installer : /\ installer' = [installer EXCEPT ![i] = Idle]
                            /\ Classify(h, c, installer[i].code)
  BY <1>1 DEF Finished
<1>3. DEFINE k == installer[i].code
<1>4. k \in Int
  BY DEF Inv, TypeOK, InstallerType
<1>5. installer' \in [Installer -> InstallerType]
  BY <1>2, IdleType DEF Inv, TypeOK
<1>6. pc[h] = "running" /\ UNCHANGED <<owner, abandoned, calls, passThru>> /\ calls' \in [Host -> Nat]
  BY DEF Finished, Inv, TypeOK
<1>7. CASE Succeeded(c, k)
  <2>1. /\ ForgetCall(h) /\ Goto(h, "script") /\ blame' = blame
        /\ exitCode' = [exitCode EXCEPT ![h] = IF SetsCode(c, ~Ignored(c, k)) THEN k ELSE @]
        /\ seen' = [seen EXCEPT ![h] = @ \cup {k}]
    BY <1>2, <1>7 DEF Classify
  <2>2. exitCode' \in [Host -> Int] /\ (\A g \in Host \ {h} : exitCode'[g] = exitCode[g])
        /\ seen' \in [Host -> SUBSET Int]
    BY <2>1, <1>4 DEF Inv, TypeOK
  <2>3. QED
    BY <1>5, <1>6, <2>1, <2>2, ReturnStep
<1>8. CASE ~Succeeded(c, k)
  <2>1. Throw(h, c, IF k = Busy THEN "busy" ELSE "error", {k})
    BY <1>2, <1>8 DEF Classify
  <2>2. blame[h] = {} /\ {k} \in SUBSET Int
    BY <1>4, <1>6, InCallFacts DEF AtScript
  <2>3. CASE k = Busy
    BY <1>4, <1>5, <1>6, <2>1, <2>2, <2>3, ThrowStep
  <2>4. CASE k # Busy
    BY <1>4, <1>5, <1>6, <2>1, <2>2, <2>4, ThrowStep
  <2>5. QED
    BY <2>3, <2>4
<1>9. QED
  BY <1>7, <1>8

-----------------------------------------------------------------------------
(* The end of the script.                                                   *)
LEMMA CloseInv == ASSUME Inv, NEW h \in Host, Close(h) PROVE Inv'
<1>1. DEFINE given == IF pc[h] = "failed" THEN {Unhandled} ELSE {}
             final == ClosedAs(CloseWith(exitCode[h], given), passThru[h])
<1>2. /\ pc' = [pc EXCEPT ![h] = "closed"] /\ exitCode' = [exitCode EXCEPT ![h] = final]
      /\ UNCHANGED <<machine, local, passThru, calls, seen, blame>>
  BY DEF Close, Goto
<1>3. exitCode[h] \in Int /\ Unhandled \in Int /\ (CHOOSE g \in {Unhandled} : TRUE) = Unhandled
  BY DEF Inv, TypeOK, Unhandled
<1>4. CloseWith(exitCode[h], given) \in Int
  BY <1>3 DEF CloseWith
<1>5. final \in Int
  BY <1>4 DEF ClosedAs
<1>6. pc[h] = "failed" => CloseWith(exitCode[h], given) = IF exitCode[h] = 0 THEN Unhandled ELSE exitCode[h]
  BY <1>3 DEF CloseWith
<1>7. ~Successful(Unhandled)
  BY ListAssumption DEF Successful, Status
<1>8. \A b \in blame[h] : \A c \in b.codes :
        b.call.via = "script" /\ ~Successful(c) => final = IF c = 0 THEN Unhandled ELSE c
  <2>1. SUFFICES ASSUME NEW b \in blame[h], NEW c \in b.codes, b.call.via = "script", ~Successful(c)
                 PROVE  final = IF c = 0 THEN Unhandled ELSE c
    OBVIOUS
  <2>2. pc[h] = "failed"
    BY DEF Close, Inv, BlameOK
  <2>3. exitCode[h] = c
    BY <2>1, <2>2 DEF Inv, BlameOK
  <2>4. CASE c = 0
    <3>1. CloseWith(exitCode[h], given) = Unhandled
      BY <2>2, <2>3, <2>4, <1>6
    <3>2. final = ClosedAs(Unhandled, passThru[h])
      BY <3>1
    <3>3. QED
      BY <2>4, <3>2, <1>7 DEF ClosedAs
  <2>5. CASE c # 0
    <3>1. CloseWith(exitCode[h], given) = c
      BY <2>2, <2>3, <2>5, <1>6
    <3>2. final = ClosedAs(c, passThru[h])
      BY <3>1
    <3>3. QED
      BY <2>1, <2>5, <3>2 DEF ClosedAs
  <2>6. QED
    BY <2>4, <2>5
<1>9. HIDE DEF final
<1>10. pc' \in [Host -> PC] /\ exitCode' \in [Host -> Int] /\ pc'[h] = "closed" /\ exitCode'[h] = final
       /\ \A g \in Host \ {h} : pc'[g] = pc[g] /\ exitCode'[g] = exitCode[g]
  BY <1>2, <1>5 DEF Inv, TypeOK, PC, AtScript
<1>11. TypeOK'
  BY <1>2, <1>10 DEF machine, local, Inv, TypeOK
<1>12. Others(h)
  BY <1>2, <1>10 DEF machine, local, Others
<1>13. owner' = owner /\ nozone' = nozone /\ blame' = blame /\ h \notin owner /\ ~nozone[h]
  BY <1>2 DEF machine, local, Close, Inv, NothingHeld
<1>14. \A b \in blame[h] : /\ b.codes = {} \/ \E c \in Int : b.codes = {c}
                           /\ b.cause = "busy" => b.codes = {Busy}
  BY DEF Inv, BlameOK
<1>15. QED
  BY <1>8, <1>10, <1>11, <1>12, <1>13, <1>14, OneHost DEF AtScript

LEMMA KilledInv == ASSUME Inv, NEW h \in Host, Killed(h) PROVE Inv'
<1>1. /\ pc' = [pc EXCEPT ![h] = "closed"] /\ call' = [call EXCEPT ![h] = <<>>]
      /\ waited' = [waited EXCEPT ![h] = 0] /\ free' = [free EXCEPT ![h] = FALSE]
      /\ nozone' = [nozone EXCEPT ![h] = FALSE]
      /\ exitCode' = [exitCode EXCEPT ![h] = Unhandled] /\ blame' = [blame EXCEPT ![h] = {}]
      /\ seen' = [seen EXCEPT ![h] = {}] /\ owner' = owner \ {h}
      /\ passThru' = passThru /\ calls' = calls
  BY DEF Killed, Goto, ForgetCall, Abandons
<1>2. installer' \in [Installer -> InstallerType]
  <2>1. installer' = [i \in Installer |->
           IF installer[i].by = {h} /\ installer[i].state = "exited" THEN Idle
           ELSE [installer[i] EXCEPT !.by = @ \ {h}]]
    BY DEF Killed
  <2>2. \A i \in Installer : [installer[i] EXCEPT !.by = @ \ {h}]
          \in InstallerType
    <3>1. SUFFICES ASSUME NEW i \in Installer
                   PROVE  [installer[i] EXCEPT !.by = @ \ {h}]
                            \in InstallerType
      OBVIOUS
    <3>2. installer[i] \in InstallerType
      BY DEF Inv, TypeOK
    <3>3. QED
      BY <3>2 DEF InstallerType
  <2>3. QED
    BY <2>1, <2>2, IdleType
<1>3. pc' \in [Host -> PC] /\ waited' \in [Host -> Nat] /\ exitCode' \in [Host -> Int]
      /\ call' \in [Host -> {<<>>} \cup {<<c>> : c \in Call}]
  BY <1>1 DEF Inv, TypeOK, PC, AtScript, Unhandled
<1>4. free' \in [Host -> BOOLEAN] /\ nozone' \in [Host -> BOOLEAN] /\ seen' \in [Host -> SUBSET Int]
      /\ blame' \in [Host -> SUBSET [call : Call, cause : {"busy", "error"}, codes : SUBSET Int]]
  BY <1>1 DEF Inv, TypeOK
<1>5. abandoned' \in BOOLEAN
  <2>1. abandoned' = (abandoned \/ (h \in owner /\ \E g \in Host : pc[g] = "waiting"))
    BY DEF Killed, Abandons
  <2>2. (abandoned \/ (h \in owner /\ \E g \in Host : pc[g] = "waiting")) \in BOOLEAN
    OBVIOUS
  <2>3. QED
    BY <2>1, <2>2
<1>6. TypeOK'
  BY <1>1, <1>2, <1>3, <1>4, <1>5 DEF Inv, TypeOK
<1>7. Others(h)
  BY <1>1 DEF Others, Inv, TypeOK
<1>8. pc'[h] = "closed" /\ ~nozone'[h] /\ blame'[h] = {} /\ h \notin owner'
  BY <1>1 DEF Inv, TypeOK
<1>9. QED
  BY <1>6, <1>7, <1>8, OneHost DEF AtScript

-----------------------------------------------------------------------------
(* Installers take, release and abandon the mutex; hosts do not notice.     *)
LEMMA InstallerSteps ==
    ASSUME Inv, NEW i \in Installer, UNCHANGED <<pc, local, session>>,
           owner' \in {owner, {i}, owner \ {i}}, owner' = {i} => owner \in {{}, {i}},
           abandoned' \in BOOLEAN,
           installer' \in [Installer -> InstallerType]
    PROVE  Inv'
<1>1. TypeOK'
  BY DEF local, session, Inv, TypeOK
<1>2. \A h \in Host : (h \in owner') <=> (h \in owner)
  BY PartyAssumption
<1>3. CallOK' /\ NothingHeld'
  BY <1>2 DEF local, Inv, CallOK, NothingHeld
<1>4. BlameOK' /\ FailureReported'
  BY DEF session, Inv, BlameOK, FailureReported
<1>5. QED
  BY <1>1, <1>3, <1>4 DEF Inv

LEMMA ExitType ==
    ASSUME Inv, NEW i \in Installer, NEW code \in Int, Exit(i, code)
    PROVE  installer' \in [Installer -> InstallerType]
<1>1. [state |-> "exited", by |-> installer[i].by, msi |-> installer[i].msi, code |-> code]
        \in InstallerType
  BY DEF Inv, TypeOK, InstallerType
<1>2. QED
  BY <1>1, IdleType DEF Exit, Inv, TypeOK

LEMMA SomeoneInv == ASSUME Inv, NEW i \in Installer, SomeoneInstalls(i) PROVE Inv'
<1>1. installer' \in [Installer -> InstallerType]
  BY DEF SomeoneInstalls, Inv, TypeOK, InstallerType
<1>2. QED
  BY <1>1, InstallerSteps DEF SomeoneInstalls, Inv, TypeOK

LEMMA InstallInv == ASSUME Inv, NEW i \in Installer, Install(i) PROVE Inv'
<1>1. CASE installer[i].msi /\ owner # {}
  <2>1. Exit(i, Busy) /\ owner' = owner /\ Busy \in Int
    BY <1>1 DEF Install, Busy
  <2>2. QED
    BY <2>1, ExitType, InstallerSteps DEF Install, Inv, TypeOK
<1>2. CASE ~(installer[i].msi /\ owner # {})
  <2>1. /\ installer' = [installer EXCEPT ![i].state = "working"]
        /\ owner' = IF installer[i].msi THEN {i} ELSE owner
    BY <1>2 DEF Install
  <2>2. installer' \in [Installer -> InstallerType]
    <3>1. installer[i] \in InstallerType
      BY DEF Inv, TypeOK
    <3>2. [installer[i] EXCEPT !.state = "working"]
            \in InstallerType
      BY <3>1 DEF InstallerType
    <3>3. installer' = [installer EXCEPT ![i] = [installer[i] EXCEPT !.state = "working"]]
      BY <2>1
    <3>4. QED
      BY <3>2, <3>3 DEF Inv, TypeOK
  <2>3. QED
    BY <1>2, <2>1, <2>2, InstallerSteps DEF Install, Inv, TypeOK
<1>3. QED
  BY <1>1, <1>2

LEMMA CompleteInv == ASSUME Inv, NEW i \in Installer, Complete(i) PROVE Inv'
<1>1. PICK code \in ExitCode : Exit(i, code)
  BY DEF Complete
<1>2. code \in Int
  BY CodeAssumption
<1>3. QED
  BY <1>1, <1>2, ExitType, InstallerSteps DEF Complete, Inv, TypeOK

LEMMA InstallerKilledInv == ASSUME Inv, NEW i \in Installer, InstallerKilled(i) PROVE Inv'
<1>1. abandoned' \in BOOLEAN
  <2>1. (abandoned \/ (i \in owner /\ \E h \in Host : pc[h] = "waiting")) \in BOOLEAN
    OBVIOUS
  <2>2. QED
    BY <2>1 DEF InstallerKilled, Abandons
<1>2. Exit(i, 1) /\ owner' = owner \ {i}
  BY DEF InstallerKilled, Abandons
<1>3. QED
  BY <1>1, <1>2, ExitType, InstallerSteps DEF InstallerKilled

-----------------------------------------------------------------------------
LEMMA Inductive == Inv /\ [Next]_vars => Inv'
<1> SUFFICES ASSUME Inv, [Next]_vars PROVE Inv'
  OBVIOUS
<1>1. CASE \E h \in Host : HostStep(h)
  <2>1. PICK h \in Host : HostStep(h)
    BY <1>1
  <2>2. QED
    BY <2>1, OpenInv, BeginInv, NotFoundInv, WaitRejectedInv, AcquireInv, ReleaseInv, TickInv,
       TimedOutInv, DecideInv, StartProcessInv, StartFailsInv, FinishedInv, CloseInv, KilledInv
       DEF HostStep, CallStep
<1>2. CASE \E i \in Installer : InstallerStep(i) \/ SomeoneInstalls(i)
  BY <1>2, SomeoneInv, InstallInv, CompleteInv, InstallerKilledInv DEF InstallerStep
<1>3. CASE UNCHANGED vars
  <2>1. UNCHANGED <<owner, abandoned, installer, pc>> /\ UNCHANGED session /\ UNCHANGED local
    BY <1>3 DEF vars, machine
  <2>2. TypeOK'
    BY <2>1 DEF session, local, Inv, TypeOK
  <2>3. CallOK' /\ NothingHeld'
    BY <2>1 DEF local, Inv, CallOK, NothingHeld
  <2>4. BlameOK' /\ FailureReported'
    BY <2>1 DEF session, Inv, BlameOK, FailureReported
  <2>5. QED
    BY <2>2, <2>3, <2>4 DEF Inv
<1>4. QED
  BY <1>1, <1>2, <1>3 DEF Next

LEMMA Invariance == Spec => []Inv
BY InitInv, Inductive, PTL DEF Spec

(* Every variable of ProcessExecution keeps its type.                       *)
THEOREM TypeCorrect == Spec => []TypeOK
<1>1. Inv => TypeOK
  BY DEF Inv
<1>2. QED
  BY Invariance, <1>1, PTL

(* Start-ADTProcess gives the MSI mutex back whatever its check finds, and  *)
(* disables zone checking only while its process runs.                      *)
THEOREM MutexReturned == Spec => []NothingHeld
<1>1. Inv => NothingHeld
  BY DEF Inv
<1>2. QED
  BY Invariance, <1>1, PTL

(* The installer failure that ended a script is what the deployment         *)
(* reports, whatever codes earlier calls left in the session.               *)
THEOREM FailuresReported == Spec => []FailureReported
<1>1. Inv => FailureReported
  BY DEF Inv
<1>2. QED
  BY Invariance, <1>1, PTL

(* An installer found busy, by the check or by msiexec, ends in a request   *)
(* for a fast retry.                                                        *)
THEOREM BusyRetried == Spec => []BusyIsRetried
<1>1. Inv => BusyIsRetried
  <2>1. SUFFICES ASSUME Inv, NEW h \in Host, NEW b \in blame[h],
                        pc[h] = "closed", b.call.via = "script", b.cause = "busy"
                 PROVE  Status(exitCode[h]) = "FastRetry"
    BY DEF BusyIsRetried
  <2>2. b.codes = {Busy}
    BY <2>1 DEF Inv, BlameOK
  <2>3. Status(Busy) = "FastRetry"
    BY ListAssumption DEF Status
  <2>4. ~Successful(Busy) /\ Busy # 0
    BY <2>3 DEF Successful, Busy
  <2>5. exitCode[h] = Busy
    BY <2>1, <2>2, <2>4 DEF Inv, FailureReported
  <2>6. QED
    BY <2>3, <2>5
<1>2. QED
  BY Invariance, <1>1, PTL
-----------------------------------------------------------------------------
(* Calls end: the measure that falls with every step of a call. *)
LEMMA LabelDistance ==
    \A label \in PC : /\ Distance(label) \in Nat
                      /\ label \notin AtScript => Distance(label) > 0
                      /\ label \in AtScript => Distance(label) = 0
BY DEF Distance, PC, AtScript

\* A host that gets out of its call has none before it any more.
LEMMA BackAtScript ==
    ASSUME Inv, NEW h \in Host, pc[h] \notin AtScript, pc'[h] \in AtScript
    PROVE  Nearer(h)
<1>1. pc[h] \in PC /\ pc'[h] \in PC
  BY DEF Inv, TypeOK, PC
<1>2. Distance(pc[h]) > 0 /\ Distance(pc'[h]) = 0
  BY <1>1, LabelDistance
<1>3. QED
  BY <1>2 DEF Nearer

LEMMA RaiseReturns ==
    ASSUME Inv, NEW h \in Host, NEW c, NEW cause, NEW codes, Raise(h, c, cause, codes)
    PROVE  pc'[h] \in AtScript
BY DEF Raise, Goto, AtScript, Inv, TypeOK

LEMMA ClassifyReturns ==
    ASSUME Inv, NEW h \in Host, NEW c, NEW code, Classify(h, c, code)
    PROVE  pc'[h] \in AtScript
<1>1. CASE Succeeded(c, code)
  BY <1>1 DEF Classify, Goto, AtScript, Inv, TypeOK
<1>2. CASE ~Succeeded(c, code)
  BY <1>2, RaiseReturns DEF Classify, Throw
<1>3. QED
  BY <1>1, <1>2

LEMMA CallStepIsNearer ==
    ASSUME Inv, NEW h \in Host, CallStep(h)
    PROVE  pc[h] \notin AtScript /\ Nearer(h)
<1>1. pc \in [Host -> PC] /\ waited \in [Host -> Nat]
  BY DEF Inv, TypeOK
<1>2. CASE WaitRejected(h)
  <2>1. pc[h] \notin AtScript /\ pc'[h] \in AtScript
    BY <1>2, RaiseReturns DEF WaitRejected, Throw, AtScript
  <2>2. QED
    BY <2>1, BackAtScript
<1>3. CASE Acquire(h)
  BY <1>1, <1>3 DEF Acquire, Goto, Nearer, Distance, AtScript
<1>4. CASE Release(h)
  BY <1>1, <1>4 DEF Release, Goto, Nearer, Distance, AtScript
<1>5. CASE Tick(h)
  <2>1. pc[h] \notin AtScript /\ UNCHANGED <<pc[h], call[h]>>
    BY <1>5 DEF Tick, AtScript
  <2>2. waited'[h] = waited[h] + 1 /\ waited[h] < call[h][1].timeout
    BY <1>1, <1>5 DEF Tick
  <2>3. call[h][1].timeout \in Nat
    BY <2>1, CallFields DEF Inv, CallOK
  <2>4. waited[h] < waited'[h] /\ waited'[h] <= call[h][1].timeout
    BY <1>1, <2>2, <2>3
  <2>5. QED
    BY <2>1, <2>4 DEF Nearer
<1>6. CASE TimedOut(h)
  BY <1>1, <1>6 DEF TimedOut, Goto, Nearer, Distance, AtScript
<1>7. CASE Decide(h)
  <2>1. CASE free[h]
    BY <1>1, <1>7, <2>1 DEF Decide, Goto, Nearer, Distance, AtScript
  <2>2. CASE ~free[h]
    <3>1. pc[h] \notin AtScript /\ pc'[h] \in AtScript
      BY <1>7, <2>2, RaiseReturns DEF Decide, Throw, AtScript
    <3>2. QED
      BY <3>1, BackAtScript
  <2>3. QED
    BY <2>1, <2>2
<1>8. CASE StartProcess(h)
  <2>1. CASE call[h][1].noWait
    BY <1>1, <1>8, <2>1 DEF StartProcess, Goto, Nearer, Distance, AtScript
  <2>2. CASE ~call[h][1].noWait
    BY <1>1, <1>8, <2>2 DEF StartProcess, Goto, Nearer, Distance, AtScript
  <2>3. QED
    BY <2>1, <2>2
<1>9. CASE StartFails(h)
  <2>1. pc[h] \notin AtScript /\ pc'[h] \in AtScript
    BY <1>9, RaiseReturns DEF StartFails, Throw, AtScript
  <2>2. QED
    BY <2>1, BackAtScript
<1>10. CASE Finished(h)
  <2>1. pc[h] \notin AtScript /\ pc'[h] \in AtScript
    BY <1>10, ClassifyReturns DEF Finished, AtScript
  <2>2. QED
    BY <2>1, BackAtScript
<1>11. QED
  BY <1>2, <1>3, <1>4, <1>5, <1>6, <1>7, <1>8, <1>9, <1>10 DEF CallStep

\* A host touches nothing of another one's call.
LEMMA HostLeavesOthers ==
    ASSUME Inv, NEW g \in Host, NEW h \in Host \ {g}, HostStep(g)
    PROVE  UNCHANGED <<pc[h], call[h], waited[h]>>
<1>1. pc \in [Host -> PC] /\ waited \in [Host -> Nat]
      /\ call \in [Host -> {<<>>} \cup {<<c>> : c \in Call}]
  BY DEF Inv, TypeOK
<1>2. ASSUME NEW c, NEW cause, NEW codes, Raise(g, c, cause, codes)
      PROVE  UNCHANGED <<pc[h], call[h], waited[h]>>
  BY <1>1, <1>2 DEF Raise, Goto, ForgetCall
<1>3. CASE CallStep(g)
  <2>1. CASE WaitRejected(g) \/ StartFails(g)
    BY <1>2, <2>1 DEF WaitRejected, StartFails, Throw
  <2>2. CASE Acquire(g) \/ Release(g) \/ Tick(g) \/ TimedOut(g)
    BY <1>1, <2>2 DEF Acquire, Release, Tick, TimedOut, Goto, local
  <2>3. CASE Decide(g)
    <3>1. CASE free[g]
      BY <1>1, <2>3, <3>1 DEF Decide, Goto, local
    <3>2. CASE ~free[g]
      BY <1>2, <2>3, <3>2 DEF Decide, Throw
    <3>3. QED
      BY <3>1, <3>2
  <2>4. CASE StartProcess(g)
    BY <1>1, <2>4 DEF StartProcess, Goto, ForgetCall
  <2>5. CASE Finished(g)
    <3>1. PICK i \in Installer : Classify(g, call[g][1], installer[i].code)
      BY <2>5 DEF Finished
    <3>2. CASE Succeeded(call[g][1], installer[i].code)
      BY <1>1, <3>1, <3>2 DEF Classify, Goto, ForgetCall
    <3>3. CASE ~Succeeded(call[g][1], installer[i].code)
      BY <1>2, <3>1, <3>3 DEF Classify, Throw
    <3>4. QED
      BY <3>2, <3>3
  <2>6. QED
    BY <1>3, <2>1, <2>2, <2>3, <2>4, <2>5 DEF CallStep
<1>4. CASE Open(g)
  BY <1>1, <1>4 DEF Open, Goto, local
<1>5. CASE Begin(g)
  BY <1>1, <1>5 DEF Begin, Goto
<1>6. CASE NotFound(g)
  BY <1>2, <1>6 DEF NotFound, Throw
<1>7. CASE Close(g)
  BY <1>1, <1>7 DEF Close, Goto, local
<1>8. CASE Killed(g)
  BY <1>1, <1>8 DEF Killed, Goto, ForgetCall
<1>9. QED
  BY <1>3, <1>4, <1>5, <1>6, <1>7, <1>8 DEF HostStep

LEMMA OtherStepsLeaveTheCall ==
    ASSUME Inv, [Next]_vars, NEW h \in Host, ~CallStep(h), pc[h] \notin AtScript
    PROVE  Nearer(h) \/ UNCHANGED <<pc[h], call[h], waited[h]>>
<1>1. CASE HostStep(h)
  <2>1. Killed(h)
    BY <1>1 DEF HostStep, Open, Begin, NotFound, Close, AtScript
  <2>2. pc'[h] = "closed"
    BY <2>1 DEF Killed, Goto, Inv, TypeOK
  <2>3. QED
    BY <2>2, BackAtScript DEF AtScript
<1>2. ASSUME NEW g \in Host \ {h}, HostStep(g)
      PROVE  UNCHANGED <<pc[h], call[h], waited[h]>>
  BY <1>2, HostLeavesOthers
<1>3. ASSUME NEW i \in Installer, InstallerStep(i) \/ SomeoneInstalls(i)
      PROVE  UNCHANGED <<pc[h], call[h], waited[h]>>
  BY <1>3 DEF InstallerStep, Install, Complete, InstallerKilled, SomeoneInstalls, local
<1>4. CASE UNCHANGED vars
  BY <1>4 DEF vars, local
<1>5. QED
  BY <1>1, <1>2, <1>3, <1>4 DEF Next

(* No call of Start-ADTProcess goes on for ever, for any number of hosts and *)
(* installers: the distance to its end falls with every step of the call,   *)
(* the time it still waits for the mutex with every tick, and no step of    *)
(* anyone else makes either longer.  It is what CallReturns rests on,       *)
(* besides the fairness of hosts and installers.                            *)
THEOREM CallsComeToAnEnd == Spec => CallsAdvance
<1>1. ASSUME Inv, [Next]_vars
      PROVE  [\A h \in Host : pc[h] \notin AtScript
                => /\ CallStep(h) => Nearer(h)
                   /\ Nearer(h) \/ UNCHANGED <<pc[h], call[h], waited[h]>>]_vars
  <2>1. ASSUME NEW h \in Host
        PROVE  CallStep(h) => Nearer(h)
    BY <1>1, CallStepIsNearer
  <2>2. ASSUME NEW h \in Host, pc[h] \notin AtScript
        PROVE  Nearer(h) \/ UNCHANGED <<pc[h], call[h], waited[h]>>
    BY <1>1, <2>1, <2>2, OtherStepsLeaveTheCall
  <2>3. QED
    BY <2>1, <2>2
<1>2. QED
  BY <1>1, Invariance, PTL DEF Spec, CallsAdvance
=============================================================================
