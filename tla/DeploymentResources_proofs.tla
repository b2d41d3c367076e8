--------------------- MODULE DeploymentResources_proofs ---------------------
(***************************************************************************)
(* Who owes what: the WIM images and drive letters of the open sessions.   *)
(* NothingLost and DriveExclusive of DeploymentSession, for every set of   *)
(* images and letters and every depth of nesting.                          *)
(***************************************************************************)
EXTENDS DeploymentSession_proofs

\* What the sessions of a list hold together.
Wims(ss) == UNION {ss[i].wims : i \in DOMAIN ss}
Drives(ss) == UNION {ss[i].drive : i \in DOMAIN ss}

\* No two of them share a letter.
Exclusive(ss) ==
    \A i, j \in DOMAIN ss : i # j => ss[i].drive \cap ss[j].drive = {}

\* The list ss accounts for the mount points m and the substitutions d, but
\* for what st says was left behind.
Accounts(ss, m, d, st) ==
    /\ m \subseteq st.wims \cup Wims(ss)
    /\ d \subseteq st.drives \cup Drives(ss)
    /\ Drives(ss) \subseteq d
    /\ Exclusive(ss)

-----------------------------------------------------------------------------
(* What lists of sessions hold. *)
LEMMA HeldByNone ==
    Wims(<<>>) = {} /\ Drives(<<>>) = {} /\ Exclusive(<<>>)
BY DEF Wims, Drives, Exclusive

LEMMA HeldByOne ==
    ASSUME NEW s
    PROVE  Wims(<<s>>) = s.wims /\ Drives(<<s>>) = s.drive /\ Exclusive(<<s>>)
<1>1. DOMAIN <<s>> = {1} /\ <<s>>[1] = s
  OBVIOUS
<1>2. QED
  BY <1>1 DEF Wims, Drives, Exclusive

LEMMA CatAt ==
    ASSUME NEW s \in Seq(Session), NEW t \in Seq(Session)
    PROVE  /\ \A i \in DOMAIN s : i \in DOMAIN (s \o t) /\ (s \o t)[i] = s[i]
           /\ \A i \in DOMAIN t : /\ Len(s) + i \in DOMAIN (s \o t)
                                  /\ (s \o t)[Len(s) + i] = t[i]
           /\ \A k \in DOMAIN (s \o t) :
                  \/ k \in DOMAIN s
                  \/ \E i \in DOMAIN t : k = Len(s) + i
<1>1. /\ Len(s) \in Nat /\ Len(t) \in Nat
      /\ DOMAIN s = 1 .. Len(s) /\ DOMAIN t = 1 .. Len(t)
      /\ DOMAIN (s \o t) = 1 .. (Len(s) + Len(t))
  OBVIOUS
<1>2. \A k \in DOMAIN (s \o t) : k \notin DOMAIN s => k - Len(s) \in DOMAIN t
  BY <1>1
<1>3. QED
  BY <1>1, <1>2

LEMMA HeldByBoth ==
    ASSUME NEW s \in Seq(Session), NEW t \in Seq(Session)
    PROVE  /\ Wims(s \o t) = Wims(s) \cup Wims(t)
           /\ Drives(s \o t) = Drives(s) \cup Drives(t)
           /\ Exclusive(s \o t)
                <=> Exclusive(s) /\ Exclusive(t) /\ Drives(s) \cap Drives(t) = {}
<1> DEFINE u == s \o t
<1>1. /\ \A i \in DOMAIN s : i \in DOMAIN u /\ u[i] = s[i]
      /\ \A i \in DOMAIN t : Len(s) + i \in DOMAIN u /\ u[Len(s) + i] = t[i]
      /\ \A k \in DOMAIN u : \/ k \in DOMAIN s
                             \/ \E i \in DOMAIN t : k = Len(s) + i
  BY CatAt
<1>2. /\ \A i \in DOMAIN s, j \in DOMAIN t : i # Len(s) + j
      /\ \A i, j \in DOMAIN t : i # j => Len(s) + i # Len(s) + j
  OBVIOUS
<1> HIDE DEF u
<1>3. Wims(u) = Wims(s) \cup Wims(t)
  <2>1. \A x : x \in Wims(u) <=> \E k \in DOMAIN u : x \in u[k].wims
    BY DEF Wims
  <2>2. \A x : x \in Wims(s) <=> \E i \in DOMAIN s : x \in s[i].wims
    BY DEF Wims
  <2>3. \A x : x \in Wims(t) <=> \E i \in DOMAIN t : x \in t[i].wims
    BY DEF Wims
  <2>4. \A x : x \in Wims(u) <=> x \in Wims(s) \/ x \in Wims(t)
    <3> SUFFICES ASSUME NEW x
                 PROVE  x \in Wims(u) <=> x \in Wims(s) \/ x \in Wims(t)
      OBVIOUS
    <3>1. ASSUME NEW k \in DOMAIN u, x \in u[k].wims
          PROVE  x \in Wims(s) \/ x \in Wims(t)
      BY <1>1, <2>2, <2>3, <3>1
    <3>2. ASSUME NEW i \in DOMAIN s, x \in s[i].wims
          PROVE  x \in Wims(u)
      BY <1>1, <2>1, <3>2
    <3>3. ASSUME NEW i \in DOMAIN t, x \in t[i].wims
          PROVE  x \in Wims(u)
      BY <1>1, <2>1, <3>3
    <3>4. QED
      BY <2>1, <2>2, <2>3, <3>1, <3>2, <3>3, Zenon
  <2>5. QED
    BY <2>4
<1>4. Drives(u) = Drives(s) \cup Drives(t)
  <2>1. \A x : x \in Drives(u) <=> \E k \in DOMAIN u : x \in u[k].drive
    BY DEF Drives
  <2>2. \A x : x \in Drives(s) <=> \E i \in DOMAIN s : x \in s[i].drive
    BY DEF Drives
  <2>3. \A x : x \in Drives(t) <=> \E i \in DOMAIN t : x \in t[i].drive
    BY DEF Drives
  <2>4. \A x : x \in Drives(u) <=> x \in Drives(s) \/ x \in Drives(t)
    <3> SUFFICES ASSUME NEW x
                 PROVE  x \in Drives(u) <=> x \in Drives(s) \/ x \in Drives(t)
      OBVIOUS
    <3>1. ASSUME NEW k \in DOMAIN u, x \in u[k].drive
          PROVE  x \in Drives(s) \/ x \in Drives(t)
      BY <1>1, <2>2, <2>3, <3>1
    <3>2. ASSUME NEW i \in DOMAIN s, x \in s[i].drive
          PROVE  x \in Drives(u)
      BY <1>1, <2>1, <3>2
    <3>3. ASSUME NEW i \in DOMAIN t, x \in t[i].drive
          PROVE  x \in Drives(u)
      BY <1>1, <2>1, <3>3
    <3>4. QED
      BY <2>1, <2>2, <2>3, <3>1, <3>2, <3>3, Zenon
  <2>5. QED
    BY <2>4
<1>5. ASSUME Exclusive(u)
      PROVE  Exclusive(s) /\ Exclusive(t) /\ Drives(s) \cap Drives(t) = {}
  <2>1. Exclusive(s)
    BY <1>1, <1>5 DEF Exclusive
  <2>2. Exclusive(t)
    BY <1>1, <1>2, <1>5 DEF Exclusive
  <2>3. \A i \in DOMAIN s, j \in DOMAIN t : s[i].drive \cap t[j].drive = {}
    BY <1>1, <1>2, <1>5 DEF Exclusive
  <2>4. QED
    BY <2>1, <2>2, <2>3 DEF Drives
<1>6. ASSUME Exclusive(s), Exclusive(t), Drives(s) \cap Drives(t) = {}
      PROVE  Exclusive(u)
  <2>1. \A i \in DOMAIN s, j \in DOMAIN t : s[i].drive \cap t[j].drive = {}
    BY <1>6 DEF Drives
  <2>2. SUFFICES ASSUME NEW k \in DOMAIN u, NEW l \in DOMAIN u, k # l
                 PROVE  u[k].drive \cap u[l].drive = {}
    BY DEF Exclusive
  <2>3. CASE k \in DOMAIN s /\ l \in DOMAIN s
    BY <1>1, <1>6, <2>2, <2>3 DEF Exclusive
  <2>4. CASE k \in DOMAIN s /\ \E j \in DOMAIN t : l = Len(s) + j
    BY <1>1, <2>1, <2>4
  <2>5. CASE l \in DOMAIN s /\ \E i \in DOMAIN t : k = Len(s) + i
    BY <1>1, <2>1, <2>5
  <2>6. CASE (\E i \in DOMAIN t : k = Len(s) + i) /\ (\E j \in DOMAIN t : l = Len(s) + j)
    BY <1>1, <1>6, <2>2, <2>6 DEF Exclusive
  <2>7. QED
    BY <1>1, <2>2, <2>3, <2>4, <2>5, <2>6, Zenon
<1>7. QED
  BY <1>3, <1>4, <1>5, <1>6 DEF u

\* The list is its front and its last element; only that one is ever replaced.
LEMMA FrontAndLast ==
    ASSUME sessions \in Seq(Session), Active, NEW r \in Session
    PROVE  /\ Front(sessions) \in Seq(Session)
           /\ sessions = Front(sessions) \o <<Last(sessions)>>
           /\ UpdateTop(r) = Front(sessions) \o <<r>>
<1> DEFINE n == Len(sessions)
           f == Front(sessions)
<1>1. n \in Nat \ {0} /\ Last(sessions) \in Session /\ f \in Seq(Session) /\ Len(f) = n - 1
  BY TopType
<1>2. \A i \in 1 .. n - 1 : f[i] = sessions[i]
  BY <1>1 DEF Front
<1>3. Last(sessions) = sessions[n]
  BY DEF Last
<1> HIDE DEF f
<1>4. ASSUME NEW x \in Session
      PROVE  /\ f \o <<x>> \in Seq(Session)
             /\ Len(f \o <<x>>) = n
             /\ \A i \in 1 .. n : (f \o <<x>>)[i] = IF i < n THEN f[i] ELSE x
  BY <1>1
<1>5. sessions = f \o <<Last(sessions)>>
  <2>1. f \o <<Last(sessions)>> \in Seq(Session) /\ Len(f \o <<Last(sessions)>>) = n
    BY <1>1, <1>4
  <2>2. \A i \in 1 .. n : (f \o <<Last(sessions)>>)[i] = sessions[i]
    BY <1>1, <1>2, <1>3, <1>4
  <2>3. QED
    BY <2>1, <2>2, SeqEqual, Zenon
<1>6. UpdateTop(r) = f \o <<r>>
  <2>1. UpdateTop(r) \in Seq(Session) /\ Len(UpdateTop(r)) = n
    BY UpdateTopType
  <2>2. f \o <<r>> \in Seq(Session) /\ Len(f \o <<r>>) = n
    BY <1>4
  <2>3. \A i \in 1 .. n : UpdateTop(r)[i] = IF i < n THEN sessions[i] ELSE r
    BY <1>1 DEF UpdateTop
  <2>4. \A i \in 1 .. n : (f \o <<r>>)[i] = UpdateTop(r)[i]
    BY <1>1, <1>2, <1>4, <2>3
  <2>5. QED
    BY <2>1, <2>2, <2>4, SeqEqual, Zenon
<1>7. QED
  BY <1>1, <1>5, <1>6 DEF f

\* Replacing the last session by one that holds the same changes nothing here.
LEMMA HeldByTop ==
    ASSUME sessions \in Seq(Session), Active, NEW r \in Session
    PROVE  /\ Wims(UpdateTop(r)) = Wims(Front(sessions)) \cup r.wims
           /\ Drives(UpdateTop(r)) = Drives(Front(sessions)) \cup r.drive
           /\ Exclusive(UpdateTop(r))
                <=> Exclusive(Front(sessions)) /\ Drives(Front(sessions)) \cap r.drive = {}
           /\ Wims(sessions) = Wims(Front(sessions)) \cup Last(sessions).wims
           /\ Drives(sessions) = Drives(Front(sessions)) \cup Last(sessions).drive
           /\ Exclusive(sessions)
                <=> /\ Exclusive(Front(sessions))
                    /\ Drives(Front(sessions)) \cap Last(sessions).drive = {}
<1> DEFINE f == Front(sessions)
<1>1. f \in Seq(Session) /\ Last(sessions) \in Session
  BY TopType
<1>2. sessions = f \o <<Last(sessions)>> /\ UpdateTop(r) = f \o <<r>>
  BY FrontAndLast
<1> HIDE DEF f
<1>3. ASSUME NEW x \in Session
      PROVE  /\ Wims(f \o <<x>>) = Wims(f) \cup x.wims
             /\ Drives(f \o <<x>>) = Drives(f) \cup x.drive
             /\ Exclusive(f \o <<x>>) <=> Exclusive(f) /\ Drives(f) \cap x.drive = {}
  <2>1. <<x>> \in Seq(Session)
    OBVIOUS
  <2>2. Wims(<<x>>) = x.wims /\ Drives(<<x>>) = x.drive /\ Exclusive(<<x>>)
    BY HeldByOne
  <2>3. /\ Wims(f \o <<x>>) = Wims(f) \cup Wims(<<x>>)
        /\ Drives(f \o <<x>>) = Drives(f) \cup Drives(<<x>>)
        /\ Exclusive(f \o <<x>>)
             <=> Exclusive(f) /\ Exclusive(<<x>>) /\ Drives(f) \cap Drives(<<x>>) = {}
    BY <1>1, <2>1, HeldByBoth, Zenon
  <2>4. QED
    BY <2>2, <2>3
<1>4. /\ Wims(sessions) = Wims(f) \cup Last(sessions).wims
      /\ Drives(sessions) = Drives(f) \cup Last(sessions).drive
      /\ Exclusive(sessions) <=> Exclusive(f) /\ Drives(f) \cap Last(sessions).drive = {}
  BY <1>1, <1>2, <1>3, Zenon
<1>5. /\ Wims(UpdateTop(r)) = Wims(f) \cup r.wims
      /\ Drives(UpdateTop(r)) = Drives(f) \cup r.drive
      /\ Exclusive(UpdateTop(r)) <=> Exclusive(f) /\ Drives(f) \cap r.drive = {}
  BY <1>2, <1>3, Zenon
<1>6. QED
  BY <1>4, <1>5, Zenon DEF f

LEMMA HeldByAbandoned ==
    ASSUME NEW ss \in Seq(Session)
    PROVE  /\ Abandon(ss).wims = stray.wims \cup (Wims(ss) \cap mounted)
           /\ Abandon(ss).drives = stray.drives \cup Drives(ss)
<1>1. UNION {ss[i].wims \cap mounted : i \in DOMAIN ss} = Wims(ss) \cap mounted
  BY DEF Wims
<1>2. QED
  BY <1>1 DEF Abandon, Drives

-----------------------------------------------------------------------------
(* What is to be proved, in these terms. *)
LEMMA AccountsBoth ==
    ASSUME NEW s \in Seq(Session), NEW t \in Seq(Session), NEW m, NEW d, NEW st
    PROVE  Accounts(s \o t, m, d, st)
             <=> /\ m \subseteq st.wims \cup Wims(s) \cup Wims(t)
                 /\ d \subseteq st.drives \cup Drives(s) \cup Drives(t)
                 /\ Drives(s) \cup Drives(t) \subseteq d
                 /\ Exclusive(s) /\ Exclusive(t)
                 /\ Drives(s) \cap Drives(t) = {}
<1>1. /\ Wims(s \o t) = Wims(s) \cup Wims(t)
      /\ Drives(s \o t) = Drives(s) \cup Drives(t)
      /\ Exclusive(s \o t)
           <=> Exclusive(s) /\ Exclusive(t) /\ Drives(s) \cap Drives(t) = {}
  BY HeldByBoth
<1>2. QED
  BY <1>1 DEF Accounts

LEMMA AccountsUnfold ==
    ASSUME NEW h, NEW m, NEW d, NEW st
    PROVE  Accounts(h, m, d, st)
             <=> /\ m \subseteq st.wims \cup UNION {h[i].wims : i \in DOMAIN h}
                 /\ d \subseteq st.drives \cup UNION {h[i].drive : i \in DOMAIN h}
                 /\ \A i, j \in DOMAIN h :
                        /\ h[i].drive \subseteq d
                        /\ i # j => h[i].drive \cap h[j].drive = {}
<1>1. Drives(h) \subseteq d <=> \A i \in DOMAIN h : h[i].drive \subseteq d
  BY DEF Drives
<1>2. QED
  BY <1>1, Zenon DEF Accounts, Wims, Drives, Exclusive

(* A host that has ended owns nothing: what its sessions held is stray.      *)
EndedStray ==
    pc = "ended" => mounted \subseteq stray.wims /\ substed \subseteq stray.drives

ResourceInv == NothingLost /\ DriveExclusive /\ EndedStray

LEMMA ResourceInvUnfold ==
    ResourceInv <=> Accounts(sessions \o building, mounted, substed, stray) /\ EndedStray
<1>1. Accounts(sessions \o building, mounted, substed, stray) <=> NothingLost /\ DriveExclusive
  <2>1. ASSUME Accounts(sessions \o building, mounted, substed, stray)
        PROVE  NothingLost /\ DriveExclusive
    BY <2>1, AccountsUnfold, Zenon DEF NothingLost, DriveExclusive, Holding
  <2>2. ASSUME NothingLost, DriveExclusive
        PROVE  Accounts(sessions \o building, mounted, substed, stray)
    BY <2>2, AccountsUnfold, Zenon DEF NothingLost, DriveExclusive, Holding
  <2>3. QED
    BY <2>1, <2>2
<1>2. QED
  BY <1>1 DEF ResourceInv

LEMMA ResourceInvNext ==
    ASSUME Accounts(sessions' \o building', mounted', substed', stray'), EndedStray'
    PROVE  ResourceInv'
<1>1. NothingLost' /\ DriveExclusive'
  BY AccountsUnfold, Zenon DEF NothingLost, DriveExclusive, Holding
<1>2. QED
  BY <1>1 DEF ResourceInv

-----------------------------------------------------------------------------
LEMMA InitResources == Init => ResourceInv
<1> SUFFICES ASSUME Init
             PROVE  ResourceInv
  OBVIOUS
<1>1. <<>> \in Seq(Session)
  OBVIOUS
<1>2. Accounts(<<>> \o <<>>, {}, {}, stray)
  <2>1. /\ {} \subseteq stray.wims \cup Wims(<<>>) \cup Wims(<<>>)
        /\ {} \subseteq stray.drives \cup Drives(<<>>) \cup Drives(<<>>)
        /\ Drives(<<>>) \cup Drives(<<>>) \subseteq {}
        /\ Drives(<<>>) \cap Drives(<<>>) = {}
    BY HeldByNone
  <2>2. QED
    BY <1>1, <2>1, HeldByNone, AccountsBoth, Zenon
<1>3. sessions = <<>> /\ building = <<>> /\ mounted = {} /\ substed = {} /\ pc = "script"
  BY DEF Init
<1>4. Accounts(sessions \o building, mounted, substed, stray) /\ EndedStray
  BY <1>2, <1>3, Zenon DEF EndedStray
<1>5. QED
  BY <1>4, ResourceInvUnfold, Zenon

\* The facts a step starts from.
LEMMA Holdings ==
    ASSUME Inv, ResourceInv
    PROVE  /\ sessions \in Seq(Session) /\ building \in Seq(Session)
           /\ mounted \subseteq stray.wims \cup Wims(sessions) \cup Wims(building)
           /\ substed \subseteq stray.drives \cup Drives(sessions) \cup Drives(building)
           /\ Drives(sessions) \cup Drives(building) \subseteq substed
           /\ Exclusive(sessions) /\ Exclusive(building)
           /\ Drives(sessions) \cap Drives(building) = {}
<1>1. sessions \in Seq(Session) /\ building \in Seq(Session)
  BY DEF Inv, TypeOK
<1>2. Accounts(sessions \o building, mounted, substed, stray)
  BY ResourceInvUnfold, Zenon
<1>3. QED
  BY <1>1, <1>2, AccountsBoth, Zenon

\* What a step has to show.
LEMMA HoldingsNext ==
    ASSUME sessions' \in Seq(Session), building' \in Seq(Session),
           mounted' \subseteq stray'.wims \cup Wims(sessions') \cup Wims(building'),
           substed' \subseteq stray'.drives \cup Drives(sessions') \cup Drives(building'),
           Drives(sessions') \cup Drives(building') \subseteq substed',
           Exclusive(sessions'), Exclusive(building'),
           Drives(sessions') \cap Drives(building') = {},
           EndedStray'
    PROVE  ResourceInv'
<1>1. Accounts(sessions' \o building', mounted', substed', stray')
  BY AccountsBoth, Zenon
<1>2. QED
  BY <1>1, ResourceInvNext, Zenon

\* Steps that leave alone what is mounted, substituted and held.
LEMMA UntouchedResources ==
    ASSUME Inv, ResourceInv, UNCHANGED <<sessions, building, mounted, substed, stray>>,
           pc' # "ended" \/ pc = "ended"
    PROVE  ResourceInv'
<1>1. Accounts(sessions' \o building', mounted', substed', stray')
  <2>1. Accounts(sessions \o building, mounted, substed, stray)
    BY ResourceInvUnfold, Zenon
  <2>2. /\ sessions' = sessions /\ building' = building /\ mounted' = mounted
        /\ substed' = substed /\ stray' = stray
    OBVIOUS
  <2>3. QED
    BY <2>1, <2>2, Zenon
<1>2. EndedStray'
  BY DEF ResourceInv, EndedStray
<1>3. QED
  BY <1>1, <1>2, ResourceInvNext, Zenon

\* Only the exit code of the active session changes.
LEMMA ExitCodeResources ==
    ASSUME Inv, ResourceInv, Active, NEW r \in Session,
           r.wims = Last(sessions).wims, r.drive = Last(sessions).drive,
           sessions' = UpdateTop(r), UNCHANGED <<building, mounted, substed, stray>>,
           pc' # "ended"
    PROVE  ResourceInv'
<1>1. sessions \in Seq(Session)
  BY Holdings
<1>2. /\ sessions' \in Seq(Session)
      /\ Wims(sessions') = Wims(sessions)
      /\ Drives(sessions') = Drives(sessions)
      /\ Exclusive(sessions') <=> Exclusive(sessions)
  BY <1>1, HeldByTop, UpdateTopType, Zenon
<1>3. EndedStray'
  BY DEF EndedStray
<1>4. QED
  BY <1>2, <1>3, Holdings, HoldingsNext, Zenon

LEMMA WithExitCodeHolds ==
    ASSUME NEW s \in Session, NEW given \in Given
    PROVE  /\ WithExitCode(s, given).wims = s.wims
           /\ WithExitCode(s, given).drive = s.drive
BY DEF WithExitCode, Session

LEMMA StartClosingResources ==
    ASSUME Inv, ResourceInv, Active, NEW given \in Given, NEW force \in BOOLEAN,
           StartClosing(given, force)
    PROVE  ResourceInv'
<1> DEFINE r == WithExitCode(Last(sessions), given)
<1>1. Last(sessions) \in Session
  BY TopType DEF Inv, TypeOK
<1>2. r \in Session /\ r.wims = Last(sessions).wims /\ r.drive = Last(sessions).drive
  BY <1>1, WithExitCodeType, WithExitCodeHolds
<1>3. sessions' = UpdateTop(r) /\ UNCHANGED <<building, mounted, substed, stray>> /\ pc' # "ended"
  BY DEF StartClosing, machine
<1> HIDE DEF r
<1>4. QED
  BY <1>2, <1>3, ExitCodeResources

\* Mount-ADTWimFile: the image is recorded with the active session.
LEMMA RecordMountHolds ==
    ASSUME sessions \in Seq(Session), NEW w \in Wim
    PROVE  /\ RecordMount(w) \in Seq(Session)
           /\ Wims(RecordMount(w)) = IF Active THEN Wims(sessions) \cup {w} ELSE Wims(sessions)
           /\ Drives(RecordMount(w)) = Drives(sessions)
           /\ Exclusive(RecordMount(w)) <=> Exclusive(sessions)
<1> DEFINE r == [Last(sessions) EXCEPT !.wims = @ \cup {w}]
<1>1. RecordMount(w) \in Seq(Session)
  BY RecordMountType
<1>2. CASE Active
  <2>1. r \in Session /\ r.wims = Last(sessions).wims \cup {w} /\ r.drive = Last(sessions).drive
    BY <1>2, TopType DEF Session
  <2>2. RecordMount(w) = UpdateTop(r)
    BY <1>2 DEF RecordMount
  <2> HIDE DEF r
  <2>3. /\ Wims(UpdateTop(r)) = Wims(Front(sessions)) \cup r.wims
        /\ Drives(UpdateTop(r)) = Drives(Front(sessions)) \cup r.drive
        /\ Exclusive(UpdateTop(r))
             <=> Exclusive(Front(sessions)) /\ Drives(Front(sessions)) \cap r.drive = {}
        /\ Wims(sessions) = Wims(Front(sessions)) \cup Last(sessions).wims
        /\ Drives(sessions) = Drives(Front(sessions)) \cup Last(sessions).drive
        /\ Exclusive(sessions)
             <=> /\ Exclusive(Front(sessions))
                 /\ Drives(Front(sessions)) \cap Last(sessions).drive = {}
    BY <1>2, <2>1, HeldByTop
  <2>4. QED
    BY <1>1, <1>2, <2>1, <2>2, <2>3
<1>3. CASE ~Active
  BY <1>1, <1>3, Zenon DEF RecordMount
<1>4. QED
  BY <1>2, <1>3

-----------------------------------------------------------------------------
(* One action at a time. *)
LEMMA OpenBeginResources ==
    ASSUME Inv, ResourceInv, NEW fresh \in BOOLEAN, NEW noExit \in BOOLEAN,
           OpenBegin(fresh, noExit)
    PROVE  ResourceInv'
<1>1. pc' # "ended" /\ pc = "script"
  BY DEF OpenBegin
<1>2. CASE ~fresh
  <2>1. UNCHANGED <<sessions, building, mounted, substed, stray>>
    BY <1>2 DEF OpenBegin, machine
  <2>2. QED
    BY <1>1, <2>1, UntouchedResources
<1>3. CASE fresh
  <2>1. building = <<>>
    BY <1>1 DEF Inv, ControlOK
  <2>2. /\ sessions' = <<>> /\ building' = <<>> /\ stray' = Abandon(sessions)
        /\ mounted' = mounted /\ substed' = substed
    BY <1>3, <2>1 DEF OpenBegin, machine
  <2>3. /\ stray'.wims = stray.wims \cup (Wims(sessions) \cap mounted)
        /\ stray'.drives = stray.drives \cup Drives(sessions)
    BY <2>2, Holdings, HeldByAbandoned
  <2>4. mounted' \subseteq stray'.wims /\ substed' \subseteq stray'.drives
    BY <2>1, <2>2, <2>3, Holdings, HeldByNone
  <2>5. EndedStray' /\ <<>> \in Seq(Session)
    BY <1>1 DEF EndedStray
  <2>6. QED
    BY <2>2, <2>4, <2>5, HeldByNone, HoldingsNext
<1>4. QED
  BY <1>2, <1>3

LEMMA MountResources ==
    ASSUME Inv, ResourceInv, NEW w \in Wim, MountADTWimFile(w)
    PROVE  ResourceInv'
<1>1. /\ mounted' = mounted \cup {w} /\ sessions' = RecordMount(w)
      /\ stray' = IF Active THEN stray ELSE [stray EXCEPT !.wims = @ \cup {w}]
      /\ building' = building /\ substed' = substed /\ pc' = pc /\ pc # "ended"
  BY DEF MountADTWimFile, InScript, CallbackPhases
<1>2. /\ stray'.drives = stray.drives
      /\ stray'.wims = IF Active THEN stray.wims ELSE stray.wims \cup {w}
  BY <1>1 DEF Inv, TypeOK
<1>3. /\ sessions' \in Seq(Session)
      /\ Wims(sessions') = IF Active THEN Wims(sessions) \cup {w} ELSE Wims(sessions)
      /\ Drives(sessions') = Drives(sessions)
      /\ Exclusive(sessions') <=> Exclusive(sessions)
  BY <1>1, Holdings, RecordMountHolds, Zenon
<1>4. mounted' \subseteq stray'.wims \cup Wims(sessions') \cup Wims(building')
  BY <1>1, <1>2, <1>3, Holdings
<1>5. /\ substed' \subseteq stray'.drives \cup Drives(sessions') \cup Drives(building')
      /\ Drives(sessions') \cup Drives(building') \subseteq substed'
      /\ Exclusive(sessions') /\ Exclusive(building')
      /\ Drives(sessions') \cap Drives(building') = {}
      /\ building' \in Seq(Session)
  BY <1>1, <1>2, <1>3, Holdings, Zenon
<1>6. EndedStray'
  BY <1>1 DEF EndedStray
<1>7. QED
  BY <1>3, <1>4, <1>5, <1>6, HoldingsNext, Zenon

LEMMA DismountResources ==
    ASSUME Inv, ResourceInv, NEW w \in Wim, DismountADTWimFile(w)
    PROVE  ResourceInv'
<1>1. /\ mounted' = mounted \ {w} /\ sessions' = sessions /\ building' = building
      /\ substed' = substed /\ pc' = pc /\ pc # "ended"
      /\ stray'.drives = stray.drives /\ stray'.wims = stray.wims \ {w}
  BY DEF DismountADTWimFile, InScript, CallbackPhases, module, Inv, TypeOK
<1>2. mounted' \subseteq stray'.wims \cup Wims(sessions) \cup Wims(building)
  BY <1>1, Holdings
<1>3. EndedStray'
  BY <1>1 DEF EndedStray
<1>4. QED
  BY <1>1, <1>2, <1>3, Holdings, HoldingsNext, Zenon

LEMMA ScriptOperationResources == Inv /\ ResourceInv /\ ScriptOperation => ResourceInv'
<1> SUFFICES ASSUME Inv, ResourceInv, ScriptOperation
             PROVE  ResourceInv'
  OBVIOUS
<1>1. CASE InitializeADTModule
  <2>1. UNCHANGED <<sessions, building, mounted, substed, stray>> /\ pc' # "ended"
    BY <1>1 DEF InitializeADTModule, ResetModule, Active, machine
  <2>2. QED
    BY <2>1, UntouchedResources
<1>2. ASSUME NEW fresh \in BOOLEAN, NEW noExit \in BOOLEAN, OpenBegin(fresh, noExit)
      PROVE  ResourceInv'
  BY <1>2, OpenBeginResources
<1>3. ASSUME NEW given \in Given, NEW force \in BOOLEAN, CloseADTSession(given, force)
      PROVE  ResourceInv'
  BY <1>3, StartClosingResources DEF CloseADTSession
<1>4. ASSUME NEW c \in Code, SetExitCode(c)
      PROVE  ResourceInv'
  <2> DEFINE r == [Last(sessions) EXCEPT !.exitCode = c]
  <2>1. r \in Session /\ r.wims = Last(sessions).wims /\ r.drive = Last(sessions).drive
    BY <1>4, TopType DEF SetExitCode, Inv, TypeOK, Session
  <2>2. /\ Active /\ sessions' = UpdateTop(r) /\ pc' # "ended"
        /\ UNCHANGED <<building, mounted, substed, stray>>
    BY <1>4 DEF SetExitCode, InScript, CallbackPhases, machine
  <2> HIDE DEF r
  <2>3. QED
    BY <2>1, <2>2, ExitCodeResources
<1>5. ASSUME NEW w \in Wim, MountADTWimFile(w)
      PROVE  ResourceInv'
  BY <1>5, MountResources
<1>6. ASSUME NEW w \in Wim, DismountADTWimFile(w)
      PROVE  ResourceInv'
  BY <1>6, DismountResources
<1>7. CASE TerminalServerInstallMode
  BY <1>7, UntouchedResources DEF TerminalServerInstallMode
<1>8. CASE SetADTDeferHistory
  BY <1>8, UntouchedResources DEF SetADTDeferHistory, module
<1>9. ASSUME NEW p \in Phase, NEW cb \in Callback, AddCallback(p, cb)
      PROVE  ResourceInv'
  BY <1>9, UntouchedResources DEF AddCallback, machine
<1>10. ASSUME NEW p \in Phase, NEW cb \in Callback, RemoveCallback(p, cb)
       PROVE  ResourceInv'
  BY <1>10, UntouchedResources DEF RemoveCallback, machine
<1>11. QED
  BY <1>1, <1>2, <1>3, <1>4, <1>5, <1>6, <1>7, <1>8, <1>9, <1>10 DEF ScriptOperation

LEMMA ConstructResources ==
    ASSUME Inv, ResourceInv, NEW a \in App, NEW rpt \in RebootPassThru, NEW ts \in TerminalServer,
           Construct(a, rpt, ts)
    PROVE  ResourceInv'
<1> DEFINE s == [app |-> a, exitCode |-> 0, noExit |-> call.noExit, rebootPassThru |-> rpt,
                 ts |-> ts, wims |-> {}, drive |-> {}]
<1>1. TypeOK' /\ building = <<>>
  BY ConstructType DEF Inv, ControlOK, Construct
<1>2. sessions' \in Seq(Session) /\ building' \in Seq(Session)
  BY <1>1 DEF TypeOK
<1>3. DetectWim(s) /\ stray' = stray
  BY DEF Construct
<1>4. pc' # "ended"
  BY <1>3 DEF DetectWim
<1>5. EndedStray'
  BY <1>4 DEF EndedStray
<1>6. s.wims = {} /\ s.drive = {}
  OBVIOUS
<1>7. /\ \A w : [s EXCEPT !.wims = {w}].wims = {w} /\ [s EXCEPT !.wims = {w}].drive = {}
      /\ \A w, d : /\ [s EXCEPT !.wims = {w}, !.drive = {d}].wims = {w}
                   /\ [s EXCEPT !.wims = {w}, !.drive = {d}].drive = {d}
  OBVIOUS
<1> HIDE DEF s
<1>8. /\ mounted \subseteq stray.wims \cup Wims(sessions)
      /\ substed \subseteq stray.drives \cup Drives(sessions)
      /\ Drives(sessions) \subseteq substed
      /\ Exclusive(sessions)
  BY <1>1, Holdings, HeldByNone
<1>9. CASE building' = <<s>> /\ UNCHANGED <<sessions, mounted, substed>>
  <2>1. Wims(building') = {} /\ Drives(building') = {} /\ Exclusive(building')
    BY <1>6, <1>9, HeldByOne, Zenon
  <2>2. /\ mounted' \subseteq stray'.wims \cup Wims(sessions') \cup Wims(building')
        /\ substed' \subseteq stray'.drives \cup Drives(sessions') \cup Drives(building')
        /\ Drives(sessions') \cup Drives(building') \subseteq substed'
        /\ Drives(sessions') \cap Drives(building') = {}
        /\ Exclusive(sessions')
    BY <1>3, <1>8, <1>9, <2>1
  <2>3. QED
    BY <1>2, <1>5, <2>1, <2>2, HoldingsNext, Zenon
<1>10. CASE ~(building' = <<s>> /\ UNCHANGED <<sessions, mounted, substed>>)
  <2>1. PICK w \in Wim :
            /\ mounted' = mounted \cup {w}
            /\ sessions' = RecordMount(w)
            /\ \/ \E d \in Drive \ substed :
                    /\ building' = <<[s EXCEPT !.wims = {w}, !.drive = {d}]>>
                    /\ substed' = substed \cup {d}
               \/ building' = <<[s EXCEPT !.wims = {w}]>> /\ substed' = substed
    BY <1>3, <1>10, Zenon DEF DetectWim
  <2>2. /\ Wims(sessions') \subseteq Wims(sessions) \cup {w} /\ Wims(sessions) \subseteq Wims(sessions')
        /\ Drives(sessions') = Drives(sessions)
        /\ Exclusive(sessions')
    BY <1>8, <2>1, Holdings, RecordMountHolds
  <2>3. ASSUME NEW D, Drives(building') = D, D \cap substed = {}, substed' = substed \cup D,
               Wims(building') = {w}, Exclusive(building')
        PROVE  ResourceInv'
    <3>1. /\ mounted' \subseteq stray'.wims \cup Wims(sessions') \cup Wims(building')
          /\ substed' \subseteq stray'.drives \cup Drives(sessions') \cup Drives(building')
          /\ Drives(sessions') \cup Drives(building') \subseteq substed'
          /\ Drives(sessions') \cap Drives(building') = {}
      BY <1>3, <1>8, <2>1, <2>2, <2>3
    <3>2. QED
      BY <1>2, <1>5, <2>2, <2>3, <3>1, HoldingsNext, Zenon
  <2>4. ASSUME NEW d \in Drive \ substed,
               building' = <<[s EXCEPT !.wims = {w}, !.drive = {d}]>>,
               substed' = substed \cup {d}
        PROVE  ResourceInv'
    <3>1. Wims(building') = {w} /\ Drives(building') = {d} /\ Exclusive(building')
      <4> DEFINE r == [s EXCEPT !.wims = {w}, !.drive = {d}]
      <4>1. r.wims = {w} /\ r.drive = {d} /\ building' = <<r>>
        BY <1>7, <2>4
      <4> HIDE DEF r
      <4>2. QED
        BY <4>1, HeldByOne, Zenon
    <3>2. {d} \cap substed = {}
      BY <2>4
    <3>3. QED
      BY <2>3, <2>4, <3>1, <3>2, Zenon
  <2>5. CASE building' = <<[s EXCEPT !.wims = {w}]>> /\ substed' = substed
    <3>1. Wims(building') = {w} /\ Drives(building') = {} /\ Exclusive(building')
      BY <1>7, <2>5, HeldByOne, Zenon
    <3>2. {} \cap substed = {} /\ substed' = substed \cup {}
      BY <2>5
    <3>3. QED
      BY <2>3, <3>1, <3>2, Zenon
  <2>6. QED
    BY <2>1, <2>4, <2>5, Zenon
<1>11. QED
  BY <1>9, <1>10

LEMMA FinalizeResources ==
    ASSUME Inv, ResourceInv, Finalize
    PROVE  ResourceInv'
<1>1. /\ sessions' = sessions \o building /\ building' = <<>>
      /\ mounted' = mounted /\ substed' = substed /\ stray' = stray /\ pc' # "ended"
  BY DEF Finalize
<1>2. /\ Wims(sessions') = Wims(sessions) \cup Wims(building)
      /\ Drives(sessions') = Drives(sessions) \cup Drives(building)
      /\ Exclusive(sessions')
      /\ sessions' \in Seq(Session) /\ building' \in Seq(Session)
  BY <1>1, Holdings, HeldByBoth
<1>3. Wims(building') = {} /\ Drives(building') = {} /\ Exclusive(building')
  BY <1>1, HeldByNone, Zenon
<1>4. /\ mounted' \subseteq stray'.wims \cup Wims(sessions') \cup Wims(building')
      /\ substed' \subseteq stray'.drives \cup Drives(sessions') \cup Drives(building')
      /\ Drives(sessions') \cup Drives(building') \subseteq substed'
      /\ Drives(sessions') \cap Drives(building') = {}
  BY <1>1, <1>2, <1>3, Holdings
<1>5. EndedStray'
  BY <1>1 DEF EndedStray
<1>6. QED
  BY <1>2, <1>3, <1>4, <1>5, HoldingsNext, Zenon

LEMMA ConstructorFailedResources ==
    ASSUME Inv, ResourceInv, ConstructorFailed
    PROVE  ResourceInv'
<1> DEFINE r == [building[1] EXCEPT !.exitCode = OpenFailure]
<1>1. building \in Seq(Session) /\ Len(building) = 1 /\ building[1] \in Session
  BY DEF Inv, TypeOK, ControlOK, ConstructorFailed
<1>2. building = <<building[1]>>
  BY <1>1
<1>3. r \in Session /\ r.wims = building[1].wims /\ r.drive = building[1].drive
  BY <1>1, CodeAssumption DEF Session
<1>4. /\ building' = <<r>> /\ sessions' = sessions /\ mounted' = mounted
      /\ substed' = substed /\ stray' = stray /\ pc' # "ended"
  BY DEF ConstructorFailed, module, machine
<1> HIDE DEF r
<1>5. building' \in Seq(Session)
  BY <1>3, <1>4
<1>6. Wims(building) = building[1].wims /\ Drives(building) = building[1].drive
  BY <1>2, HeldByOne, Zenon
<1>7. Wims(building') = Wims(building) /\ Drives(building') = Drives(building)
      /\ Exclusive(building')
  BY <1>3, <1>4, <1>6, HeldByOne, Zenon
<1>8. EndedStray'
  BY <1>4 DEF EndedStray
<1>9. QED
  BY <1>4, <1>5, <1>7, <1>8, Holdings, HoldingsNext, Zenon

\* DeploymentSession.Close: what its target held is released or left behind.
LEMMA RemoveTargetHolds ==
    ASSUME Inv, ResourceInv, pc = "close", RemoveTarget
    PROVE  /\ sessions' \in Seq(Session) /\ building' = <<>>
           /\ Wims(sessions) \cup Wims(building) = Wims(sessions') \cup Target.wims
           /\ Drives(sessions) \cup Drives(building) = Drives(sessions') \cup Target.drive
           /\ Drives(sessions') \cap Target.drive = {}
           /\ Exclusive(sessions')
<1>1. sessions \in Seq(Session) /\ building \in Seq(Session) /\ Len(building) <= 1
  BY Holdings DEF Inv, ControlOK
<1>2. CASE building # <<>>
  <2>1. building = <<building[1]>> /\ Target = building[1]
    <3>1. Len(building) = 1 /\ building[1] \in Session
      <4>1. PICK n \in Nat : n = Len(building) /\ n # 0
        BY <1>1, <1>2
      <4>2. n <= 1
        BY <1>1, <4>1, Zenon
      <4>3. Len(building) = 1
        BY <4>1, <4>2
      <4>4. QED
        BY <1>1, <4>3
    <3>2. building = <<building[1]>>
      BY <1>1, <3>1
    <3>3. QED
      BY <1>2, <3>2 DEF Target
  <2>2. Wims(building) = Target.wims /\ Drives(building) = Target.drive
    BY <2>1, HeldByOne, Zenon
  <2>3. sessions' = sessions /\ building' = <<>>
    BY <1>2 DEF RemoveTarget
  <2>4. QED
    BY <1>1, <2>2, <2>3, Holdings
<1>3. CASE building = <<>>
  <2>1. Active /\ Target = Last(sessions) /\ sessions' = Front(sessions) /\ building' = <<>>
    BY <1>3 DEF Inv, ControlOK, Target, RemoveTarget
  <2>2. Last(sessions) \in Session /\ Front(sessions) \in Seq(Session)
    BY <1>1, <2>1, TopType
  <2>3. /\ Wims(sessions) = Wims(Front(sessions)) \cup Last(sessions).wims
        /\ Drives(sessions) = Drives(Front(sessions)) \cup Last(sessions).drive
        /\ Exclusive(Front(sessions))
        /\ Drives(Front(sessions)) \cap Last(sessions).drive = {}
    BY <1>1, <2>1, <2>2, HeldByTop, Holdings
  <2>4. Wims(building) = {} /\ Drives(building) = {}
    BY <1>3, HeldByNone
  <2>5. QED
    BY <2>1, <2>2, <2>3, <2>4
<1>4. QED
  BY <1>2, <1>3

LEMMA CloseResources ==
    ASSUME Inv, ResourceInv, Close
    PROVE  ResourceInv'
<1>1. pc = "close" /\ RemoveTarget
  BY DEF Close, CloseSucceeds, CloseThrowsAtHistory, CloseThrowsAtSubst
<1>2. /\ sessions' \in Seq(Session) /\ building' = <<>>
      /\ Wims(sessions) \cup Wims(building) = Wims(sessions') \cup Target.wims
      /\ Drives(sessions) \cup Drives(building) = Drives(sessions') \cup Target.drive
      /\ Drives(sessions') \cap Target.drive = {}
      /\ Exclusive(sessions')
  BY <1>1, RemoveTargetHolds
<1>3. building' \in Seq(Session) /\ Wims(building') = {} /\ Drives(building') = {}
      /\ Exclusive(building')
  BY <1>2, HeldByNone
<1>4. /\ mounted \subseteq stray.wims \cup Wims(sessions') \cup Target.wims
      /\ substed \subseteq stray.drives \cup Drives(sessions') \cup Target.drive
      /\ Drives(sessions') \cup Target.drive \subseteq substed
  BY <1>2, Holdings
<1>5. pc' # "ended"
  BY DEF Close, CloseSucceeds, CloseThrowsAtHistory, CloseThrowsAtSubst, ReturnFromClose
<1>6. EndedStray'
  BY <1>5 DEF EndedStray
<1>7. Target \in Session
  BY <1>1, TargetType DEF Inv, ControlOK
<1>8. ASSUME mounted' \subseteq stray'.wims \cup Wims(sessions'),
             substed' \subseteq stray'.drives \cup Drives(sessions'),
             Drives(sessions') \subseteq substed'
      PROVE  ResourceInv'
  <2>1. /\ mounted' \subseteq stray'.wims \cup Wims(sessions') \cup Wims(building')
        /\ substed' \subseteq stray'.drives \cup Drives(sessions') \cup Drives(building')
        /\ Drives(sessions') \cup Drives(building') \subseteq substed'
        /\ Drives(sessions') \cap Drives(building') = {}
    BY <1>3, <1>8
  <2>2. QED
    BY <1>2, <1>3, <1>6, <2>1, HoldingsNext, Zenon
<1>9. CASE CloseSucceeds
  <2>1. PICK stuck \in SUBSET (Target.wims \cap mounted) :
            /\ mounted' = (mounted \ Target.wims) \cup stuck
            /\ stray' = [stray EXCEPT !.wims = (@ \ Target.wims) \cup stuck]
    BY <1>9 DEF CloseSucceeds
  <2>2. stray'.wims = (stray.wims \ Target.wims) \cup stuck /\ stray'.drives = stray.drives
    BY <2>1 DEF Inv, TypeOK
  <2>3. substed' = substed \ Target.drive
    BY <1>9 DEF CloseSucceeds
  <2>4. mounted' \subseteq stray'.wims \cup Wims(sessions')
    BY <1>4, <2>1, <2>2
  <2>5. /\ substed' \subseteq stray'.drives \cup Drives(sessions')
        /\ Drives(sessions') \subseteq substed'
    BY <1>2, <1>4, <2>2, <2>3
  <2>6. QED
    BY <1>8, <2>4, <2>5
<1>10. CASE CloseThrowsAtHistory \/ CloseThrowsAtSubst
  <2>1. stray' = Abandon(<<Target>>) /\ mounted' = mounted /\ substed' = substed
    BY <1>10 DEF CloseThrowsAtHistory, CloseThrowsAtSubst
  <2>2. <<Target>> \in Seq(Session)
    BY <1>7
  <2>3. /\ stray'.wims = stray.wims \cup (Target.wims \cap mounted)
        /\ stray'.drives = stray.drives \cup Target.drive
    <3>1. Wims(<<Target>>) = Target.wims /\ Drives(<<Target>>) = Target.drive
      BY HeldByOne
    <3>2. QED
      BY <2>1, <2>2, <3>1, HeldByAbandoned, Zenon
  <2>4. /\ mounted' \subseteq stray'.wims \cup Wims(sessions')
        /\ substed' \subseteq stray'.drives \cup Drives(sessions')
        /\ Drives(sessions') \subseteq substed'
    BY <1>4, <2>1, <2>3
  <2>5. QED
    BY <1>8, <2>4
<1>11. QED
  BY <1>9, <1>10 DEF Close

LEMMA ExitResources ==
    ASSUME Inv, ResourceInv, ExitADTInvocation
    PROVE  ResourceInv'
<1>1. /\ building = <<>> /\ building' = <<>> /\ sessions' = sessions
      /\ mounted' = mounted /\ substed' = substed
  BY DEF ExitADTInvocation, Inv, ControlOK, machine
<1>2. CASE call.noExit /\ ~call.force
  <2>1. stray' = stray /\ pc' # "ended"
    BY <1>2 DEF ExitADTInvocation
  <2>2. QED
    BY <1>1, <2>1, UntouchedResources
<1>3. CASE ~(call.noExit /\ ~call.force)
  <2>1. stray' = Abandon(sessions)
    BY <1>3 DEF ExitADTInvocation
  <2>2. /\ stray'.wims = stray.wims \cup (Wims(sessions) \cap mounted)
        /\ stray'.drives = stray.drives \cup Drives(sessions)
    BY <2>1, Holdings, HeldByAbandoned, Zenon
  <2>3. mounted' \subseteq stray'.wims /\ substed' \subseteq stray'.drives
    BY <1>1, <2>2, Holdings, HeldByNone
  <2>4. EndedStray'
    BY <2>3 DEF EndedStray
  <2>5. QED
    BY <1>1, <2>3, <2>4, Holdings, HeldByNone, HoldingsNext
<1>4. QED
  BY <1>2, <1>3

LEMMA EnvironmentResources ==
    ASSUME Inv, ResourceInv, Killed \/ NewHost
    PROVE  ResourceInv'
<1>1. CASE Killed
  <2>1. /\ sessions' = sessions /\ building' = <<>> /\ mounted' = mounted /\ substed' = substed
        /\ stray' = Abandon(sessions \o building)
    BY <1>1 DEF Killed, module, machine
  <2>2. sessions \o building \in Seq(Session)
    BY Holdings
  <2>3. /\ Wims(sessions \o building) = Wims(sessions) \cup Wims(building)
        /\ Drives(sessions \o building) = Drives(sessions) \cup Drives(building)
    BY Holdings, HeldByBoth
  <2>4. /\ stray'.wims
             = stray.wims \cup ((Wims(sessions) \cup Wims(building)) \cap mounted)
        /\ stray'.drives = stray.drives \cup Drives(sessions) \cup Drives(building)
    BY <2>1, <2>2, <2>3, HeldByAbandoned
  <2>5. mounted' \subseteq stray'.wims /\ substed' \subseteq stray'.drives
    BY <2>1, <2>4, Holdings
  <2>6. EndedStray'
    BY <2>5 DEF EndedStray
  <2>7. building' \in Seq(Session)
    BY <2>1
  <2>8. /\ Drives(sessions') \cup Drives(building') \subseteq substed'
        /\ Drives(sessions') \cap Drives(building') = {}
        /\ Exclusive(building') /\ Exclusive(sessions')
    BY <2>1, Holdings, HeldByNone
  <2>9. QED
    BY <2>1, <2>5, <2>6, <2>7, <2>8, Holdings, HoldingsNext
<1>2. CASE NewHost
  <2>1. /\ sessions' = <<>> /\ building' = building /\ building = <<>>
        /\ mounted' = mounted /\ substed' = substed /\ stray' = stray
        /\ pc = "ended" /\ pc' # "ended"
    BY <1>2 DEF NewHost, machine, Inv, ControlOK
  <2>2. mounted' \subseteq stray'.wims /\ substed' \subseteq stray'.drives
    BY <2>1 DEF ResourceInv, EndedStray
  <2>3. EndedStray' /\ <<>> \in Seq(Session)
    BY <2>1 DEF EndedStray
  <2>4. QED
    BY <2>1, <2>2, <2>3, HeldByNone, HoldingsNext
<1>3. QED
  BY <1>1, <1>2

LEMMA CallStepResources == Inv /\ ResourceInv /\ CallStep => ResourceInv'
<1> SUFFICES ASSUME Inv, ResourceInv, CallStep
             PROVE  ResourceInv'
  OBVIOUS
<1>1. CASE OpenInitialize
  <2>1. sessions' = sessions
    BY <1>1 DEF OpenInitialize, ResetModule, Inv, ControlOK, Active
  <2>2. UNCHANGED <<sessions, building, mounted, substed, stray>> /\ pc' # "ended"
    BY <1>1, <2>1 DEF OpenInitialize, machine
  <2>3. QED
    BY <2>2, UntouchedResources
<1>2. ASSUME NEW a \in App, NEW rpt \in RebootPassThru, NEW ts \in TerminalServer,
             Construct(a, rpt, ts)
      PROVE  ResourceInv'
  BY <1>2, ConstructResources
<1>3. CASE Finalize
  BY <1>3, FinalizeResources
<1>4. CASE ConstructorFailed
  BY <1>4, ConstructorFailedResources
<1>5. CASE InvokeCallback
  BY <1>5, UntouchedResources DEF InvokeCallback, module, machine
<1>6. CASE OpenFails
  <2>1. Active /\ {OpenFailure} \in Given /\ FALSE \in BOOLEAN
    BY <1>6, CodeAssumption DEF OpenFails, Inv, ControlOK, CallbackPhases, Given
  <2>2. QED
    BY <1>6, <2>1, StartClosingResources DEF OpenFails
<1>7. CASE CallbacksDone
  BY <1>7, UntouchedResources DEF CallbacksDone, CallbackPhases, module, machine
<1>8. CASE Close
  BY <1>8, CloseResources
<1>9. CASE ExitADTInvocation
  BY <1>9, ExitResources
<1>10. QED
  BY <1>1, <1>2, <1>3, <1>4, <1>5, <1>6, <1>7, <1>8, <1>9 DEF CallStep

-----------------------------------------------------------------------------
LEMMA NextResources == Inv /\ ResourceInv /\ [Next]_vars => ResourceInv'
<1> SUFFICES ASSUME Inv, ResourceInv, [Next]_vars
             PROVE  ResourceInv'
  OBVIOUS
<1>1. CASE ScriptOperation
  BY <1>1, ScriptOperationResources
<1>2. CASE CallStep
  BY <1>2, CallStepResources
<1>3. CASE Killed \/ NewHost
  BY <1>3, EnvironmentResources
<1>4. CASE UNCHANGED vars
  BY <1>4, UntouchedResources DEF vars, module, machine
<1>5. QED
  BY <1>1, <1>2, <1>3, <1>4 DEF Next

(* The three parts need each other and Inv: a session may only be dropped    *)
(* with the host once its images and letters have been counted as stray.     *)
THEOREM ResourceInvariant == Spec => []ResourceInv
BY Invariant, InitResources, NextResources, PTL DEF Spec

(* No mounted image and no substituted letter is ever forgotten: a session   *)
(* still open (or being constructed) holds it and Close will release it, or  *)
(* it is what a failing tool, a lost session or a mount outside any session  *)
(* left behind.                                                              *)
THEOREM ResourcesAreAccounted == Spec => []NothingLost
<1>1. ResourceInv => NothingLost
  BY DEF ResourceInv
<1>2. QED
  BY ResourceInvariant, <1>1, PTL

(* Nested zero-config sessions never share a drive letter, and none loses    *)
(* the letter of its DirFiles to the close of another session.               *)
THEOREM LettersAreExclusive == Spec => []DriveExclusive
<1>1. ResourceInv => DriveExclusive
  BY DEF ResourceInv
<1>2. QED
  BY ResourceInvariant, <1>1, PTL
=============================================================================
