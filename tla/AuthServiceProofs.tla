-------------------------- MODULE AuthServiceProofs --------------------------
(***************************************************************************)
(* Theorems about AuthService, for any number of requests, sessions,       *)
(* enrolments and challenges, and for any lifetimes.                       *)
(***************************************************************************)
EXTENDS AuthService, TLAPS

\* What holds of a request x when the file has the secret t, the ids in u were
\* issued and the sessions in l are there.
RequestOK(x, t, u, l) ==
    /\ x.pc = "idle" => x = Idle
    /\ x.session # None => x.session \in u
    /\ x.pc \in {"checking", "checked"} => x.session # None
    \* what a check knows is enough to fail it, where it must fail
    /\ x.pc = "checking" => x.valid \/ (~x.held /\ t # None)
    /\ x.pc = "checked" => x.valid \/ (~x.held /\ x.seenTotp # None)
    /\ x.session # None /\ x.pc \notin {"checking", "checked"} => x.valid
    \* a confirmation has stored what it is about
    /\ x.op = "confirm" =>
          x.session # None /\ x.about \in Enrolments /\ (x.pc = "updated" => t = x.about)
    /\ x.pc = "open" /\ x.present => x.session \in l

RequestInv == \A r \in Requests : RequestOK(req[r], totp, used, sessions)

\* What holds of what the requests leave behind.
HistoryInv ==
    /\ ConfirmedIsStored
    /\ loggedOut \subseteq used
    /\ LoggedOutStaysOut

AuthInv == TypeOK /\ RequestInv /\ HistoryInv

-----------------------------------------------------------------------------
(* One request changes.                                                     *)

LEMMA IdleFacts ==
    /\ Idle \in RequestType
    /\ Idle.pc = "idle" /\ Idle.session = None /\ Idle.op = "access"
<1>1. /\ Idle.pc = "idle" /\ Idle.session = None /\ Idle.op = "access"
  BY DEF Idle
<1>2. Idle \in RequestType
  BY DEF Idle, RequestType, Ops, SessionOps, Phases
<1>. QED BY <1>1, <1>2

LEMMA IdleOK == \A t, u, l : RequestOK(Idle, t, u, l)
BY IdleFacts DEF RequestOK

\* A request that is not idle moves to another phase.
LEMMA PhaseFacts ==
    ASSUME NEW x \in RequestType, NEW p \in Phases
    PROVE  LET y == [x EXCEPT !.pc = p] IN
           /\ y \in RequestType
           /\ y.pc = p
           /\ y.op = x.op /\ y.session = x.session /\ y.held = x.held
           /\ y.about = x.about /\ y.seenTotp = x.seenTotp
           /\ y.valid = x.valid /\ y.present = x.present
BY DEF RequestType

LEMMA OpenFacts ==
    ASSUME NEW x \in RequestType, NEW b \in BOOLEAN
    PROVE  LET y == [x EXCEPT !.pc = "open", !.present = b] IN
           /\ y \in RequestType
           /\ y.pc = "open" /\ y.present = b
           /\ y.op = x.op /\ y.session = x.session
           /\ y.about = x.about /\ y.valid = x.valid
BY DEF RequestType, Phases

\* A request is not disturbed by ids that are issued, by a secret stored for the
\* first time, or by a session that goes and is not the one it keeps open.
LEMMA Undisturbed ==
    ASSUME NEW x, NEW t, NEW u, NEW l, RequestOK(x, t, u, l),
           NEW t2, NEW u2, NEW l2,
           t = None \/ t2 = t, u \subseteq u2,
           x.pc = "open" /\ x.session \in l => x.session \in l2
    PROVE  RequestOK(x, t2, u2, l2)
BY NoneAssumption DEF RequestOK

\* A request of its own takes a step that revokes no session.
LEMMA RequestSteps ==
    ASSUME TypeOK, RequestInv, NEW r \in Requests, NEW x \in RequestType,
           req' = [req EXCEPT ![r] = x],
           totp = None \/ totp' = totp, used \subseteq used', sessions \subseteq sessions',
           RequestOK(x, totp', used', sessions')
    PROVE  req' \in [Requests -> RequestType] /\ RequestInv'
<1>1. req' \in [Requests -> RequestType]
  BY DEF TypeOK
<1>2. ASSUME NEW q \in Requests PROVE RequestOK(req'[q], totp', used', sessions')
  <2>1. CASE q = r
    BY <2>1 DEF TypeOK
  <2>2. CASE q # r
    <3>1. req'[q] = req[q]
      BY <2>2 DEF TypeOK
    <3>2. RequestOK(req[q], totp, used, sessions)
      BY DEF RequestInv
    <3>. QED BY <3>1, <3>2, Undisturbed
  <2>. QED BY <2>1, <2>2
<1>. QED BY <1>1, <1>2 DEF RequestInv

\* One is answered and sessions are revoked: the sockets of these close.
LEMMA RequestRevokes ==
    ASSUME TypeOK, RequestInv, NEW r \in Requests, NEW gone,
           req' = Notified(Answered(r), gone),
           UNCHANGED <<totp, used>>, sessions \ gone \subseteq sessions'
    PROVE  req' \in [Requests -> RequestType] /\ RequestInv'
<1>1. Answered(r) \in [Requests -> RequestType]
  BY IdleFacts DEF TypeOK, Answered
<1>2. req' \in [Requests -> RequestType]
  BY <1>1, IdleFacts DEF Notified
<1>3. ASSUME NEW q \in Requests PROVE RequestOK(req'[q], totp', used', sessions')
  <2>1. req'[q] = Idle \/ (q # r /\ req'[q] = req[q] /\ ~(req[q].pc = "open" /\ req[q].session \in gone))
    BY <1>1 DEF Notified, Answered, TypeOK
  <2>2. CASE req'[q] = Idle
    BY <2>2, IdleOK
  <2>3. CASE req'[q] = req[q] /\ ~(req[q].pc = "open" /\ req[q].session \in gone)
    <3>1. RequestOK(req[q], totp, used, sessions)
      BY DEF RequestInv
    <3>. QED BY <3>1, <2>3, Undisturbed
  <2>. QED BY <2>1, <2>2, <2>3
<1>. QED BY <1>2, <1>3 DEF RequestInv

\* One is answered and no session is revoked.
LEMMA RequestAnswers ==
    ASSUME TypeOK, RequestInv, NEW r \in Requests,
           req' = Answered(r),
           totp = None \/ totp' = totp, used \subseteq used', sessions \subseteq sessions'
    PROVE  req' \in [Requests -> RequestType] /\ RequestInv'
BY IdleFacts, IdleOK, RequestSteps DEF Answered
-----------------------------------------------------------------------------
(* Steps that change the request only.                                      *)

\* Nothing but the request changes.
LEMMA OnlyRequest ==
    ASSUME AuthInv, req' \in [Requests -> RequestType], RequestInv',
           UNCHANGED <<now, storeVars, sessionVars, totpVars, used, historyVars>>
    PROVE  AuthInv'
<1>1. \A r \in Requests : req'[r].pc = "idle" => req'[r] = Idle
  BY DEF RequestInv, RequestOK
<1>2. TypeOK'
  BY <1>1 DEF AuthInv, TypeOK, storeVars, sessionVars, totpVars, historyVars
<1>3. HistoryInv'
  BY DEF AuthInv, HistoryInv, ConfirmedIsStored, LoggedOutStaysOut, storeVars, sessionVars, historyVars
<1>. QED BY <1>2, <1>3 DEF AuthInv

LEMMA PhaseMoves ==
    ASSUME AuthInv, NEW r \in Requests, NEW p \in {"accepted", "reading", "updating", "hashing"},
           req[r].pc \in {"checked", "read"},
           req[r].pc = "checked" => PassesCheck(r),
           req' = [req EXCEPT ![r].pc = p],
           UNCHANGED <<now, storeVars, sessionVars, totpVars, used, historyVars>>
    PROVE  AuthInv'
<1> DEFINE x == [req[r] EXCEPT !.pc = p]
<1>1. req[r] \in RequestType /\ p \in Phases
  BY DEF AuthInv, TypeOK, Phases
<1>2. x \in RequestType /\ x.pc = p /\ x.op = req[r].op /\ x.session = req[r].session
      /\ x.about = req[r].about /\ x.valid = req[r].valid /\ x.held = req[r].held
  BY <1>1, PhaseFacts
<1>3. RequestOK(req[r], totp, used, sessions)
  BY DEF AuthInv, RequestInv
<1>4. req[r].valid \/ req[r].session = None
  BY <1>1, <1>3 DEF RequestOK, PassesCheck
<1>5. RequestOK(x, totp', used', sessions')
  BY <1>2, <1>3, <1>4 DEF RequestOK, storeVars, sessionVars
<1>6. req' = [req EXCEPT ![r] = x]
  BY DEF AuthInv, TypeOK
<1> HIDE DEF x
<1>7. req' \in [Requests -> RequestType] /\ RequestInv'
  BY <1>2, <1>5, <1>6, RequestSteps DEF AuthInv, storeVars, sessionVars
<1>. QED BY <1>7, OnlyRequest

LEMMA JustAnswers ==
    ASSUME AuthInv, NEW r \in Requests, req' = Answered(r),
           UNCHANGED <<now, storeVars, sessionVars, totpVars, used, historyVars>>
    PROVE  AuthInv'
<1>1. req' \in [Requests -> RequestType] /\ RequestInv'
  BY RequestAnswers DEF AuthInv, storeVars, sessionVars
<1>. QED BY <1>1, OnlyRequest

LEMMA ReadOpensStep ==
    ASSUME AuthInv, NEW r \in Requests, ReadOpens(r)
    PROVE  AuthInv'
<1> DEFINE p == IF req[r].pc = "checking" THEN "checked" ELSE "read"
           x == [req[r] EXCEPT !.pc = p, !.seenPassword = password, !.seenTotp = totp]
<1>1. req[r] \in RequestType /\ p \in Phases /\ password \in BOOLEAN /\ totp \in Enrolments \union {None}
  BY DEF AuthInv, TypeOK, Phases
<1> HIDE DEF p
<1>2. /\ x \in RequestType
      /\ x.pc = p /\ x.seenTotp = totp
      /\ x.op = req[r].op /\ x.session = req[r].session /\ x.held = req[r].held
      /\ x.about = req[r].about /\ x.valid = req[r].valid /\ x.present = req[r].present
  BY <1>1 DEF RequestType
<1>3. RequestOK(req[r], totp, used, sessions)
  BY DEF AuthInv, RequestInv
<1>4. req' = [req EXCEPT ![r] = x] /\ UNCHANGED <<totp, used, sessions>>
      /\ req[r].pc \in {"checking", "reading"}
      /\ p = (IF req[r].pc = "checking" THEN "checked" ELSE "read")
  BY DEF ReadOpens, storeVars, sessionVars, p
<1>5. RequestOK(x, totp', used', sessions')
  BY <1>2, <1>3, <1>4 DEF RequestOK
<1> HIDE DEF x
<1>6. req' \in [Requests -> RequestType] /\ RequestInv'
  BY <1>2, <1>4, <1>5, RequestSteps DEF AuthInv
<1>. QED BY <1>6, OnlyRequest DEF ReadOpens

LEMMA SocketOpensStep ==
    ASSUME AuthInv, NEW r \in Requests, SocketOpens(r)
    PROVE  AuthInv'
<1> DEFINE b == req[r].session \in sessions
           x == [req[r] EXCEPT !.pc = "open", !.present = b]
<1>1. req[r] \in RequestType /\ b \in BOOLEAN
  BY DEF AuthInv, TypeOK
<1>2. /\ x \in RequestType
      /\ x.pc = "open" /\ x.present = b
      /\ x.op = req[r].op /\ x.session = req[r].session
      /\ x.about = req[r].about /\ x.valid = req[r].valid
  BY <1>1, OpenFacts
<1>3. RequestOK(req[r], totp, used, sessions)
  BY DEF AuthInv, RequestInv
<1>4. req' = [req EXCEPT ![r] = x] /\ UNCHANGED <<totp, used, sessions>>
      /\ req[r].pc = "checked" /\ PassesCheck(r)
  BY DEF SocketOpens, Passed, storeVars, sessionVars
<1>5. x.present => req[r].session \in sessions
  BY <1>2
<1>6. req[r].session # None => req[r].valid
  BY <1>3, <1>4 DEF RequestOK, PassesCheck
<1>7. RequestOK(x, totp', used', sessions')
  BY <1>2, <1>3, <1>4, <1>5, <1>6 DEF RequestOK
<1> HIDE DEF x
<1>8. req' \in [Requests -> RequestType] /\ RequestInv'
  BY <1>2, <1>4, <1>7, RequestSteps DEF AuthInv
<1>. QED BY <1>8, OnlyRequest DEF SocketOpens

LEMMA CalledPlain ==
    ASSUME AuthInv, NEW r \in Requests, SetupCalled(r) \/ LoginCalled(r)
    PROVE  AuthInv'
<1>1. PICK op \in {"setup", "login"} : req' = [req EXCEPT ![r] = [Idle EXCEPT !.op = op, !.pc = "reading"]]
  BY DEF SetupCalled, LoginCalled
<1> DEFINE x == [Idle EXCEPT !.op = op, !.pc = "reading"]
<1>2. x \in RequestType /\ x.op = op /\ x.pc = "reading" /\ x.session = None
  BY IdleFacts DEF Idle, RequestType, Ops, Phases
<1>3. UNCHANGED <<now, storeVars, sessionVars, totpVars, used, historyVars>>
  BY DEF SetupCalled, LoginCalled
<1>4. RequestOK(x, totp', used', sessions')
  BY <1>2 DEF RequestOK
<1> HIDE DEF x
<1>5. req' \in [Requests -> RequestType] /\ RequestInv'
  BY <1>1, <1>2, <1>3, <1>4, RequestSteps DEF AuthInv, storeVars, sessionVars, x
<1>. QED BY <1>3, <1>5, OnlyRequest

-----------------------------------------------------------------------------
(* Steps that change more.                                                  *)

\* Neither a session that logged out comes back, nor is another secret stored.
LEMMA HistoryKept ==
    ASSUME AuthInv, UNCHANGED <<totp, confirmed, loggedOut>>, used \subseteq used',
           sessions' \subseteq sessions \union (used' \ used)
    PROVE  HistoryInv'
BY DEF AuthInv, HistoryInv, ConfirmedIsStored, LoggedOutStaysOut

\* The lookup of a session, for a request x that knows which.
LEMMA LooksUpStep ==
    ASSUME AuthInv, NEW r \in Requests, NEW x \in RequestType,
           x.session \in used, x.op = "confirm" => x.about \in Enrolments,
           LooksUp(r, x), UNCHANGED <<totp, used>>
    PROVE  /\ req' \in [Requests -> RequestType]
           /\ RequestInv'
           /\ sessions' \subseteq sessions
           /\ UNCHANGED <<verified, expiresAt>>
<1> DEFINE s == x.session
<1>4. s # None
  BY NoneAssumption DEF AuthInv, TypeOK
<1>1. CASE s \notin sessions /\ req' = Answered(r) /\ UNCHANGED sessionVars
  BY <1>1, RequestAnswers DEF AuthInv, sessionVars
<1>2. CASE RevokesAndAnswers(r, s)
  <2>1. sessions \ ({s} \intersect sessions) \subseteq sessions' /\ req' = Notified(Answered(r), {s} \intersect sessions)
        /\ sessions' \subseteq sessions /\ UNCHANGED <<verified, expiresAt>>
    BY <1>2 DEF RevokesAndAnswers
  <2>. QED BY <2>1, RequestRevokes DEF AuthInv
<1>3. CASE /\ s \in sessions /\ ~Expired(s)
           /\ req' = [req EXCEPT ![r] =
                 [x EXCEPT !.pc = "checking", !.held = s \in verified, !.valid = ValidSession(s)]]
           /\ UNCHANGED sessionVars
  <2> DEFINE h == s \in verified
             v == ValidSession(s)
             y == [x EXCEPT !.pc = "checking", !.held = h, !.valid = v]
  <2>1. h \in BOOLEAN /\ v \in BOOLEAN
    BY DEF ValidSession
  <2>2. v \/ (~h /\ totp # None)
    BY <1>3 DEF ValidSession
  <2>6. req' = [req EXCEPT ![r] = y]
    BY <1>3
  <2> HIDE DEF h, v
  <2>3. /\ y \in RequestType
        /\ y.pc = "checking" /\ y.held = h /\ y.valid = v
        /\ y.op = x.op /\ y.session = x.session /\ y.about = x.about
    BY <2>1 DEF RequestType, Phases
  <2>4. y.valid \/ (~y.held /\ totp # None)
    BY <2>2, <2>3
  <2>5. RequestOK(y, totp', used', sessions')
    BY <2>3, <2>4, <1>4, <1>3 DEF RequestOK, sessionVars
  <2> HIDE DEF y
  <2>7. req' \in [Requests -> RequestType] /\ RequestInv'
    BY <1>3, <2>3, <2>5, <2>6, RequestSteps DEF AuthInv, sessionVars
  <2>. QED BY <2>7, <1>3 DEF sessionVars
<1>. QED BY <1>1, <1>2, <1>3 DEF LooksUp

\* A step that leaves the file, the enrolments and the challenges alone and
\* at most revokes.
LEMMA TypeAfterCheck ==
    ASSUME AuthInv, req' \in [Requests -> RequestType], RequestInv',
           sessions' \subseteq sessions, UNCHANGED <<verified, expiresAt>>,
           UNCHANGED <<now, storeVars, totpVars, used, confirmed>>,
           loggedOut' \subseteq SessionIds, overlapped' \subseteq SessionIds
    PROVE  TypeOK'
<1>1. \A r \in Requests : req'[r].pc = "idle" => req'[r] = Idle
  BY DEF RequestInv, RequestOK
<1>. QED BY <1>1 DEF AuthInv, TypeOK, storeVars, totpVars

LEMMA ChecksAgainStep ==
    ASSUME AuthInv, NEW r \in Requests, ChecksAgain(r)
    PROVE  AuthInv'
<1> DEFINE x == [req[r] EXCEPT !.checks = 1]
<1>1. req[r] \in RequestType
  BY DEF AuthInv, TypeOK
<1>2. x \in RequestType /\ x.session = req[r].session /\ x.op = req[r].op /\ x.about = req[r].about
  BY <1>1 DEF RequestType
<1>3. RequestOK(req[r], totp, used, sessions) /\ req[r].pc = "checked" /\ LooksUp(r, x)
      /\ UNCHANGED <<now, storeVars, totpVars, used, historyVars>>
  BY DEF AuthInv, RequestInv, ChecksAgain
<1> HIDE DEF x
<1>4. x.session \in used /\ (x.op = "confirm" => x.about \in Enrolments)
  BY <1>2, <1>3 DEF RequestOK
<1>5. /\ req' \in [Requests -> RequestType] /\ RequestInv'
      /\ sessions' \subseteq sessions /\ UNCHANGED <<verified, expiresAt>>
  BY <1>2, <1>3, <1>4, LooksUpStep DEF storeVars
<1>6. loggedOut' \subseteq SessionIds /\ overlapped' \subseteq SessionIds
  BY <1>3 DEF AuthInv, TypeOK, historyVars
<1>7. TypeOK'
  BY <1>3, <1>5, <1>6, TypeAfterCheck DEF historyVars
<1>8. HistoryInv'
  BY <1>3, <1>5, HistoryKept DEF historyVars, storeVars
<1>. QED BY <1>5, <1>7, <1>8 DEF AuthInv

LEMMA SessionRequestStep ==
    ASSUME AuthInv, NEW r \in Requests, NEW op \in SessionOps, NEW s \in SessionIds,
           NEW e \in Enrolments \union {None}, s \in used, SessionRequestCalled(r, op, s, e)
    PROVE  AuthInv'
<1> DEFINE x == [Idle EXCEPT !.op = op, !.session = s, !.checks = Checks(op), !.about = e]
<1>1. Checks(op) \in 0..2
  BY DEF Checks
<1>2. x \in RequestType /\ x.session = s /\ x.op = op /\ x.about = e
  BY <1>1 DEF Idle, RequestType, Ops, SessionOps, Phases
<1>3. /\ LooksUp(r, x)
      /\ UNCHANGED <<now, storeVars, totpVars, used, confirmed, loggedOut>>
      /\ overlapped' \subseteq overlapped \union {s}
      /\ op = "confirm" => e \in used
  BY DEF SessionRequestCalled
<1>4. op = "confirm" => e \in Enrolments
  BY <1>3, NoneAssumption DEF AuthInv, TypeOK
<1> HIDE DEF x
<1>5. /\ req' \in [Requests -> RequestType] /\ RequestInv'
      /\ sessions' \subseteq sessions /\ UNCHANGED <<verified, expiresAt>>
  BY <1>2, <1>3, <1>4, LooksUpStep DEF storeVars
<1>6. loggedOut' \subseteq SessionIds /\ overlapped' \subseteq SessionIds
  BY <1>3 DEF AuthInv, TypeOK
<1>7. TypeOK'
  BY <1>3, <1>5, <1>6, TypeAfterCheck
<1>8. HistoryInv'
  BY <1>3, <1>5, HistoryKept DEF storeVars
<1>. QED BY <1>5, <1>7, <1>8 DEF AuthInv

LEMMA CheckFailsStep ==
    ASSUME AuthInv, NEW r \in Requests, CheckFails(r)
    PROVE  AuthInv'
<1> DEFINE s == req[r].session
<1>1. /\ sessions' = sessions \ {s}
      /\ req' = Notified(Answered(r), {s} \intersect sessions)
      /\ UNCHANGED <<verified, expiresAt>>
      /\ UNCHANGED <<now, storeVars, totpVars, used, historyVars>>
  BY DEF CheckFails, RevokesAndAnswers
<1>2. req' \in [Requests -> RequestType] /\ RequestInv'
  BY <1>1, RequestRevokes DEF AuthInv, storeVars
<1>3. loggedOut' \subseteq SessionIds /\ overlapped' \subseteq SessionIds
  BY <1>1 DEF AuthInv, TypeOK, historyVars
<1>4. TypeOK'
  BY <1>1, <1>2, <1>3, TypeAfterCheck DEF historyVars
<1>5. HistoryInv'
  BY <1>1, HistoryKept DEF historyVars, storeVars
<1>. QED BY <1>2, <1>4, <1>5 DEF AuthInv

LEMMA LogoutStep ==
    ASSUME AuthInv, NEW r \in Requests, Logout(r)
    PROVE  AuthInv'
<1> DEFINE s == req[r].session
<1>1. /\ sessions' = sessions \ {s}
      /\ req' = Notified(Answered(r), {s} \intersect sessions)
      /\ UNCHANGED <<verified, expiresAt>>
      /\ UNCHANGED <<now, storeVars, totpVars, used, confirmed, overlapped>>
      /\ loggedOut' = loggedOut \union {s}
      /\ req[r].pc = "checked"
  BY DEF Logout, RevokesAndAnswers, Passed
<1>2. req' \in [Requests -> RequestType] /\ RequestInv'
  BY <1>1, RequestRevokes DEF AuthInv, storeVars
<1>3. s \in used /\ s \in SessionIds
  <2>1. RequestOK(req[r], totp, used, sessions) /\ req[r] \in RequestType
    BY DEF AuthInv, RequestInv, TypeOK
  <2>. QED BY <2>1, <1>1 DEF RequestOK, RequestType
<1>4. loggedOut' \subseteq SessionIds /\ overlapped' \subseteq SessionIds
  BY <1>1, <1>3 DEF AuthInv, TypeOK
<1>5. TypeOK'
  BY <1>1, <1>2, <1>4, TypeAfterCheck
<1>6. HistoryInv'
  BY <1>1, <1>3 DEF AuthInv, HistoryInv, ConfirmedIsStored, LoggedOutStaysOut, storeVars
<1>. QED BY <1>2, <1>5, <1>6 DEF AuthInv

\* The answer to a started enrolment, or to one that came too late.
LEMMA EnrolmentSteps ==
    ASSUME AuthInv, NEW r \in Requests, EnrolAnswered(r) \/ EnrolmentExpired(r)
    PROVE  AuthInv'
<1>1. /\ req' = Answered(r)
      /\ UNCHANGED <<now, storeVars, sessionVars, challenges, challengeExpiresAt, historyVars>>
      /\ used \subseteq used' /\ used' \subseteq used \union enrolments' /\ enrolments' \subseteq used'
      /\ enrolments' \subseteq Enrolments
      /\ enrolmentExpiresAt' \in [Enrolments -> Nat]
  BY TimeAssumption DEF EnrolAnswered, EnrolmentExpired, AuthInv, TypeOK
<1>2. req' \in [Requests -> RequestType] /\ RequestInv'
  BY <1>1, RequestAnswers DEF AuthInv, storeVars, sessionVars
<1>3. \A q \in Requests : req'[q].pc = "idle" => req'[q] = Idle
  BY <1>2 DEF RequestInv, RequestOK
<1>4. TypeOK'
  BY <1>1, <1>2, <1>3 DEF AuthInv, TypeOK, storeVars, sessionVars, historyVars
<1>5. HistoryInv'
  BY <1>1, HistoryKept DEF storeVars, sessionVars, historyVars
<1>. QED BY <1>2, <1>4, <1>5 DEF AuthInv

\* A secret is stored only when there is none, so no confirmation was answered.
LEMMA TotpStoredStep ==
    ASSUME AuthInv, NEW r \in Requests, TotpStored(r)
    PROVE  AuthInv'
<1> DEFINE x == [req[r] EXCEPT !.pc = "updated"]
<1>1. req[r] \in RequestType /\ "updated" \in Phases
  BY DEF AuthInv, TypeOK, Phases
<1>2. x \in RequestType /\ x.pc = "updated" /\ x.op = req[r].op /\ x.session = req[r].session
      /\ x.about = req[r].about /\ x.valid = req[r].valid
  BY <1>1, PhaseFacts
<1>3. /\ RequestOK(req[r], totp, used, sessions)
      /\ req[r].pc = "updating" /\ req[r].op = "confirm"
      /\ totp = None /\ totp' = req[r].about
      /\ req' = [req EXCEPT ![r] = x]
      /\ UNCHANGED <<now, password, sessionVars, totpVars, used, historyVars>>
  BY DEF AuthInv, RequestInv, TotpStored, MayStoreTotp
<1>4. RequestOK(x, totp', used', sessions') /\ totp' \in Enrolments
  BY <1>2, <1>3 DEF RequestOK
<1> HIDE DEF x
<1>5. req' \in [Requests -> RequestType] /\ RequestInv'
  BY <1>2, <1>3, <1>4, RequestSteps DEF AuthInv, sessionVars
<1>6. \A q \in Requests : req'[q].pc = "idle" => req'[q] = Idle
  BY <1>5 DEF RequestInv, RequestOK
<1>7. TypeOK'
  BY <1>3, <1>4, <1>5, <1>6 DEF AuthInv, TypeOK, sessionVars, totpVars, historyVars
<1>8. \A c \in confirmed : c[2] \in Enrolments
  BY DEF AuthInv, TypeOK
<1>9. confirmed = {}
  BY <1>3, <1>8, NoneAssumption DEF AuthInv, HistoryInv, ConfirmedIsStored
<1>10. HistoryInv'
  BY <1>3, <1>9 DEF AuthInv, HistoryInv, ConfirmedIsStored, LoggedOutStaysOut, sessionVars, historyVars
<1>. QED BY <1>5, <1>7, <1>10 DEF AuthInv

\* Every session but the confirming one goes, and takes its sockets along.
LEMMA ConfirmedStep ==
    ASSUME AuthInv, NEW r \in Requests, Confirmed(r)
    PROVE  AuthInv'
<1> DEFINE s == req[r].session
           e == req[r].about
<1>1. /\ req[r].pc = "updated" /\ req[r].op = "confirm"
      /\ sessions' = Kept(s) /\ verified' = verified \union Kept(s)
      /\ req' = Notified(Answered(r), sessions \ Kept(s))
      /\ enrolments' = enrolments \ {e}
      /\ confirmed' = confirmed \union {<<s, e>>}
      /\ UNCHANGED <<now, storeVars, expiresAt, enrolmentExpiresAt, challenges,
                     challengeExpiresAt, used, loggedOut, overlapped>>
  BY DEF Confirmed
<1>2. Kept(s) \subseteq sessions
  BY DEF Kept
<1>3. req' \in [Requests -> RequestType] /\ RequestInv'
  BY <1>1, <1>2, RequestRevokes DEF AuthInv, storeVars
<1>4. RequestOK(req[r], totp, used, sessions) /\ req[r] \in RequestType
  BY DEF AuthInv, RequestInv, TypeOK
<1>5. e \in Enrolments /\ totp = e
  BY <1>1, <1>4 DEF RequestOK
<1>6. s \in SessionIds
  BY <1>1, <1>4 DEF RequestOK, RequestType
<1>7. \A q \in Requests : req'[q].pc = "idle" => req'[q] = Idle
  BY <1>3 DEF RequestInv, RequestOK
<1>8. confirmed' \subseteq SessionIds \X Enrolments
  BY <1>1, <1>5, <1>6 DEF AuthInv, TypeOK
<1>9. /\ sessions' \subseteq SessionIds /\ verified' \subseteq SessionIds
       /\ enrolments' \subseteq Enrolments
       /\ sessions' \union enrolments' \union challenges' \subseteq used'
  BY <1>1, <1>2 DEF AuthInv, TypeOK
<1>10. TypeOK'
  BY <1>1, <1>3, <1>7, <1>8, <1>9 DEF AuthInv, TypeOK, storeVars
<1>11. HistoryInv'
  BY <1>1, <1>2, <1>5 DEF AuthInv, HistoryInv, ConfirmedIsStored, LoggedOutStaysOut, storeVars
<1>. QED BY <1>3, <1>10, <1>11 DEF AuthInv

LEMMA PasswordStoredStep ==
    ASSUME AuthInv, NEW r \in Requests, PasswordStored(r)
    PROVE  AuthInv'
<1> DEFINE x == [req[r] EXCEPT !.pc = "updated"]
<1>1. req[r] \in RequestType /\ "updated" \in Phases
  BY DEF AuthInv, TypeOK, Phases
<1>2. x \in RequestType /\ x.pc = "updated" /\ x.op = req[r].op /\ x.session = req[r].session
      /\ x.valid = req[r].valid
  BY <1>1, PhaseFacts
<1>3. /\ RequestOK(req[r], totp, used, sessions)
      /\ req[r].pc = "updating" /\ req[r].op = "setup"
      /\ password' = TRUE
      /\ req' = [req EXCEPT ![r] = x]
      /\ UNCHANGED <<now, totp, sessionVars, totpVars, used, historyVars>>
  BY DEF AuthInv, RequestInv, PasswordStored
<1>4. RequestOK(x, totp', used', sessions')
  BY <1>2, <1>3 DEF RequestOK
<1> HIDE DEF x
<1>5. req' \in [Requests -> RequestType] /\ RequestInv'
  BY <1>2, <1>3, <1>4, RequestSteps DEF AuthInv, sessionVars
<1>6. \A q \in Requests : req'[q].pc = "idle" => req'[q] = Idle
  BY <1>5 DEF RequestInv, RequestOK
<1>7. TypeOK'
  BY <1>3, <1>5, <1>6 DEF AuthInv, TypeOK, sessionVars, totpVars, historyVars
<1>8. HistoryInv'
  BY <1>3, HistoryKept DEF sessionVars, historyVars
<1>. QED BY <1>5, <1>7, <1>8 DEF AuthInv

\* A new session has an id that no session had.
LEMMA CreatesSessionStep ==
    ASSUME AuthInv, NEW r \in Requests, NEW b \in BOOLEAN, CreatesSession(r, b),
           UNCHANGED <<now, storeVars, enrolments, enrolmentExpiresAt,
                       challengeExpiresAt, historyVars>>,
           challenges' \subseteq challenges
    PROVE  AuthInv'
<1>1. PICK s \in SessionIds \ used :
         /\ used' = used \union {s} /\ sessions' = sessions \union {s}
         /\ verified' \subseteq verified \union {s}
         /\ expiresAt' = [expiresAt EXCEPT ![s] = now + SessionTtl]
         /\ req' = Answered(r)
  BY DEF CreatesSession
<1>2. req' \in [Requests -> RequestType] /\ RequestInv'
  BY <1>1, RequestAnswers DEF AuthInv, storeVars
<1>3. \A q \in Requests : req'[q].pc = "idle" => req'[q] = Idle
  BY <1>2 DEF RequestInv, RequestOK
<1>4. expiresAt' \in [SessionIds -> Nat]
  BY <1>1, TimeAssumption DEF AuthInv, TypeOK
<1>5. TypeOK'
  BY <1>1, <1>2, <1>3, <1>4 DEF AuthInv, TypeOK, storeVars, historyVars
<1>6. HistoryInv'
  BY <1>1, HistoryKept DEF storeVars, historyVars
<1>. QED BY <1>2, <1>5, <1>6 DEF AuthInv

LEMMA AsksForCodeStep ==
    ASSUME AuthInv, NEW r \in Requests, AsksForCode(r)
    PROVE  AuthInv'
<1>1. PICK c \in Challenges \ used :
         /\ used' = used \union {c} /\ challenges' = challenges \union {c}
         /\ challengeExpiresAt' = [challengeExpiresAt EXCEPT ![c] = now + LoginTtl]
         /\ req' = Answered(r)
         /\ UNCHANGED <<now, storeVars, sessionVars, enrolments, enrolmentExpiresAt, historyVars>>
  BY DEF AsksForCode
<1>2. req' \in [Requests -> RequestType] /\ RequestInv'
  BY <1>1, RequestAnswers DEF AuthInv, storeVars, sessionVars
<1>3. \A q \in Requests : req'[q].pc = "idle" => req'[q] = Idle
  BY <1>2 DEF RequestInv, RequestOK
<1>4. challengeExpiresAt' \in [Challenges -> Nat]
  BY <1>1, TimeAssumption DEF AuthInv, TypeOK
<1>5. TypeOK'
  BY <1>1, <1>2, <1>3, <1>4 DEF AuthInv, TypeOK, storeVars, sessionVars, historyVars
<1>6. HistoryInv'
  BY <1>1, HistoryKept DEF storeVars, sessionVars, historyVars
<1>. QED BY <1>2, <1>5, <1>6 DEF AuthInv

LEMMA VerifyCalledStep ==
    ASSUME AuthInv, NEW r \in Requests, NEW c \in Challenges, VerifyCalled(r, c)
    PROVE  AuthInv'
<1> DEFINE x == [Idle EXCEPT !.op = "verify", !.pc = "reading", !.about = c]
<1>1. /\ req' = [req EXCEPT ![r] = x] \/ UNCHANGED req
      /\ challenges' \subseteq challenges
      /\ UNCHANGED <<now, storeVars, sessionVars, enrolments, enrolmentExpiresAt,
                     challengeExpiresAt, used, historyVars>>
  BY DEF VerifyCalled
<1>2. x \in RequestType /\ x.op = "verify" /\ x.pc = "reading" /\ x.session = None
  BY IdleFacts DEF RequestType, Ops, Phases
<1>3. RequestOK(x, totp', used', sessions')
  BY <1>2 DEF RequestOK
<1> HIDE DEF x
<1>4. ASSUME req' = [req EXCEPT ![r] = x]
      PROVE  req' \in [Requests -> RequestType] /\ RequestInv'
  BY <1>1, <1>2, <1>3, <1>4, RequestSteps DEF AuthInv, storeVars, sessionVars
<1>5. ASSUME UNCHANGED req
      PROVE  req' \in [Requests -> RequestType] /\ RequestInv'
  BY <1>1, <1>5 DEF AuthInv, TypeOK, RequestInv, storeVars, sessionVars
<1>6. req' \in [Requests -> RequestType] /\ RequestInv'
  BY <1>1, <1>4, <1>5
<1>7. \A q \in Requests : req'[q].pc = "idle" => req'[q] = Idle
  BY <1>6 DEF RequestInv, RequestOK
<1>8. TypeOK'
  BY <1>1, <1>6, <1>7 DEF AuthInv, TypeOK, storeVars, sessionVars, historyVars
<1>9. HistoryInv'
  BY <1>1, HistoryKept DEF storeVars, sessionVars, historyVars
<1>. QED BY <1>6, <1>8, <1>9 DEF AuthInv

-----------------------------------------------------------------------------
(* The theorems.                                                            *)

LEMMA AuthInit == Init => AuthInv
<1> SUFFICES ASSUME Init PROVE AuthInv
  OBVIOUS
<1>0. now \in 0..MaxTime
  BY TimeAssumption DEF Init
<1>1. TypeOK
  <2>1. req \in [Requests -> RequestType] /\ \A r \in Requests : req[r].pc = "idle" => req[r] = Idle
    BY IdleFacts DEF Init
  <2>2. /\ expiresAt \in [SessionIds -> Nat]
        /\ enrolmentExpiresAt \in [Enrolments -> Nat]
        /\ challengeExpiresAt \in [Challenges -> Nat]
    BY DEF Init
  <2>. QED BY <1>0, <2>1, <2>2 DEF Init, TypeOK
<1>2. RequestInv
  BY IdleOK DEF Init, RequestInv
<1>3. HistoryInv
  BY DEF Init, HistoryInv, ConfirmedIsStored, LoggedOutStaysOut
<1>. QED BY <1>1, <1>2, <1>3 DEF AuthInv

LEMMA AuthTick == ASSUME AuthInv, Tick PROVE AuthInv'
<1>1. req' \in [Requests -> RequestType] /\ RequestInv' /\ HistoryInv'
  BY DEF Tick, AuthInv, TypeOK, RequestInv, HistoryInv, ConfirmedIsStored, LoggedOutStaysOut,
         storeVars, sessionVars, historyVars
<1>2. now' \in 0..MaxTime
  BY TimeAssumption DEF Tick, AuthInv, TypeOK
<1>3. TypeOK'
  BY <1>1, <1>2 DEF Tick, AuthInv, TypeOK, storeVars, sessionVars, totpVars, historyVars
<1>. QED BY <1>1, <1>3 DEF AuthInv

LEMMA AuthCalled == ASSUME AuthInv, NEW r \in Requests, Called(r) PROVE AuthInv'
BY SessionRequestStep, CalledPlain, VerifyCalledStep DEF Called

LEMMA AuthContinues == ASSUME AuthInv, NEW r \in Requests, Continues(r) PROVE AuthInv'
<1>1. CASE ReadOpens(r)
  BY <1>1, ReadOpensStep
<1>2. CASE CheckFails(r) \/ ChecksAgain(r)
  BY <1>2, CheckFailsStep, ChecksAgainStep
<1>3. CASE SocketOpens(r) \/ Logout(r)
  BY <1>3, SocketOpensStep, LogoutStep
<1>4. CASE AccessAccepted(r) \/ EnrolReads(r) \/ ConfirmUpdates(r)
  <2>1. PICK p \in {"accepted", "reading", "updating"} : req' = [req EXCEPT ![r].pc = p]
    BY <1>4 DEF AccessAccepted, EnrolReads, ConfirmUpdates
  <2>2. /\ req[r].pc = "checked" /\ PassesCheck(r)
        /\ UNCHANGED <<now, storeVars, sessionVars, totpVars, used, historyVars>>
    BY <1>4 DEF AccessAccepted, EnrolReads, ConfirmUpdates, Passed
  <2>. QED BY <2>1, <2>2, PhaseMoves
<1>5. CASE LoginHashes(r)
  BY <1>5, PhaseMoves DEF LoginHashes
<1>6. CASE SetupReads(r)
  BY <1>6, PhaseMoves, JustAnswers DEF SetupReads
<1>7. CASE \/ RequestFails(r) \/ AccessAnswered(r) \/ SocketCloses(r) \/ ConfirmRefused(r)
           \/ TotpRefused(r) \/ PasswordRefused(r) \/ LoginRefused(r) \/ PasswordWrong(r)
           \/ VerifyRefused(r)
  <2>1. /\ req' = Answered(r)
        /\ UNCHANGED <<now, storeVars, sessionVars, totpVars, used, historyVars>>
    BY <1>7 DEF RequestFails, AccessAnswered, SocketCloses, ConfirmRefused, TotpRefused,
                PasswordRefused, LoginRefused, PasswordWrong, VerifyRefused
  <2>. QED BY <2>1, JustAnswers
<1>8. CASE EnrolAnswered(r) \/ EnrolmentExpired(r)
  BY <1>8, EnrolmentSteps
<1>9. CASE TotpStored(r) \/ Confirmed(r) \/ PasswordStored(r) \/ AsksForCode(r)
  BY <1>9, TotpStoredStep, ConfirmedStep, PasswordStoredStep, AsksForCodeStep
<1>10. CASE SetupAnswered(r) \/ LogsIn(r) \/ Verifies(r)
  <2>1. PICK b \in BOOLEAN : CreatesSession(r, b)
    BY <1>10 DEF SetupAnswered, LogsIn, Verifies
  <2>2. /\ UNCHANGED <<now, storeVars, enrolments, enrolmentExpiresAt,
                       challengeExpiresAt, historyVars>>
        /\ challenges' \subseteq challenges
    BY <1>10 DEF SetupAnswered, LogsIn, Verifies, totpVars
  <2>. QED BY <2>1, <2>2, CreatesSessionStep
<1>. QED BY <1>1, <1>2, <1>3, <1>4, <1>5, <1>6, <1>7, <1>8, <1>9, <1>10 DEF Continues

LEMMA AuthStutter == ASSUME AuthInv, UNCHANGED vars PROVE AuthInv'
<1>1. req' \in [Requests -> RequestType] /\ RequestInv'
  BY DEF AuthInv, TypeOK, RequestInv, vars, storeVars, sessionVars
<1>. QED BY <1>1, OnlyRequest DEF vars

\* Everything below follows from this invariant.
THEOREM AuthInvariant == Spec => []AuthInv
<1>1. AuthInv /\ [Next]_vars => AuthInv'
  BY AuthTick, AuthCalled, AuthContinues, AuthStutter DEF Next
<1>. QED BY AuthInit, <1>1, PTL DEF Spec

\* The state has its type.
THEOREM AuthTypeCorrect == Spec => []TypeOK
<1>1. AuthInv => TypeOK
  BY DEF AuthInv
<1>. QED BY AuthInvariant, <1>1, PTL

\* Whatever validateSession lets through was valid when it was looked up,
\* although the state file is read after that.
THEOREM AuthAcceptsValid == Spec => []AcceptedWasValid
<1>1. AuthInv => AcceptedWasValid
  BY DEF AuthInv, RequestInv, RequestOK, AcceptedWasValid
<1>. QED BY AuthInvariant, <1>1, PTL

\* Of competing confirmations the one that succeeds is the one stored.
THEOREM AuthOneEnrolment == Spec => []ConfirmedIsStored
<1>1. AuthInv => ConfirmedIsStored
  BY DEF AuthInv, HistoryInv
<1>. QED BY AuthInvariant, <1>1, PTL

\* Confirming an enrolment never brings back a session that logged out.
THEOREM AuthLogoutIsFinal == Spec => []LoggedOutStaysOut
<1>1. AuthInv => LoggedOutStaysOut
  BY DEF AuthInv, HistoryInv
<1>. QED BY AuthInvariant, <1>1, PTL

\* Sockets close with the session they were opened in.
THEOREM AuthClosesSockets == Spec => []RevokedSocketsClose
<1>1. AuthInv => RevokedSocketsClose
  BY DEF AuthInv, RequestInv, RequestOK, RevokedSocketsClose
<1>. QED BY AuthInvariant, <1>1, PTL
-----------------------------------------------------------------------------
(* The session an enrolment was confirmed by.                               *)

\* A request that may still revoke its session, or be what keeps it in use.
Busy(r) == req[r].pc \notin {"idle", "open"}

\* Confirmations that stored their secret and have not answered.
Stored(r) == req[r].op = "confirm" /\ req[r].pc = "updated"

\* Sessions that may be gone: expired, logged out, or used by two requests at once.
Excused(s) == Expired(s) \/ s \in loggedOut \union overlapped

\* The strengthening of ConfirmingSessionKept that every step preserves.
KeepInv ==
    \* two requests of one session are noticed
    /\ \A q, r \in Requests :
          q # r /\ Busy(q) /\ Busy(r) /\ req[q].session = req[r].session =>
              req[q].session \in overlapped \union {None}
    \* only one confirmation stores its secret, and none after one is answered
    /\ \A r \in Requests :
          Stored(r) => confirmed = {} /\ \A q \in Requests : Stored(q) => q = r
    \* until then the session of one in flight is there
    /\ confirmed = {} =>
          \A r \in Requests : Busy(r) /\ req[r].op = "confirm" =>
              req[r].session \in sessions \/ Excused(req[r].session)
    \* and from then on
    /\ \A c \in confirmed :
          c[1] \in used /\ (c[1] \in sessions \intersect verified \/ Excused(c[1]))
    \* because its later checks know that it is verified
    /\ \A c \in confirmed, q \in Requests :
          req[q].pc \in {"checking", "checked"} /\ req[q].session = c[1] =>
              req[q].held \/ c[1] \in overlapped

\* What a step that begins no check of a session may do to a request.
Follows(q) ==
    \/ req'[q] \in {Idle, req[q]}
    \/ req'[q].session = None /\ req'[q].op # "confirm"
    \/ /\ Busy(q) /\ ~Stored(q)'
       /\ req'[q].session = req[q].session /\ req'[q].op = req[q].op
       /\ req'[q].pc \in {"checking", "checked"} =>
             req[q].pc \in {"checking", "checked"} /\ req'[q].held = req[q].held

\* Nothing is taken back.
Grows ==
    /\ confirmed' = confirmed /\ overlapped \subseteq overlapped' /\ loggedOut \subseteq loggedOut'
    /\ used \subseteq used' /\ verified \subseteq verified'
    /\ \A s \in used \intersect SessionIds : Expired(s) => Expired(s)'

\* Sessions that a confirmation, in flight or answered, relies on.
Wanted(s) ==
    \/ \E c \in confirmed : c[1] = s
    \/ \E r \in Requests : Busy(r) /\ req[r].session = s

\* Such steps keep the invariant, if they revoke no such session without excuse.
LEMMA FollowingKeeps ==
    ASSUME AuthInv, KeepInv, Grows, \A q \in Requests : Follows(q),
           \A s \in used : s \in sessions => s \in sessions' \/ Excused(s)' \/ ~Wanted(s)'
    PROVE  KeepInv'
<1>0. /\ \A q \in Requests : RequestOK(req[q], totp, used, sessions)
      /\ None \notin used /\ confirmed \subseteq SessionIds \X Enrolments
  BY NoneAssumption DEF AuthInv, RequestInv, TypeOK
<1>1. ASSUME NEW q \in Requests, req'[q].session # None, Busy(q)'
      PROVE  /\ Busy(q) /\ req'[q].session = req[q].session /\ req'[q].op = req[q].op
             /\ req[q].session \in used \intersect SessionIds
  BY <1>0, <1>1, IdleFacts DEF Follows, Busy, RequestOK, AuthInv, TypeOK, RequestType
<1>2. \A s \in used \intersect SessionIds : Excused(s) => Excused(s)'
  BY DEF Grows, Excused
<1>3. ASSUME NEW q \in Requests, NEW r \in Requests, q # r, Busy(q)', Busy(r)',
             req'[q].session = req'[r].session, req'[q].session # None
      PROVE  req'[q].session \in overlapped'
  BY <1>1, <1>3 DEF KeepInv, Grows
<1>4. ASSUME NEW q \in Requests, Stored(q)' PROVE Stored(q)
  BY <1>4, IdleFacts DEF Follows, Stored
<1>5. ASSUME NEW r \in Requests, Busy(r)', req'[r].op = "confirm", confirmed' = {}
      PROVE  req'[r].session \in sessions' \/ Excused(req[r].session)'
  <2>1. /\ req'[r].session # None
    BY <1>0, <1>5, IdleFacts DEF Follows, Busy, RequestOK
  <2>2. /\ Busy(r) /\ req'[r].session = req[r].session /\ req[r].op = "confirm"
        /\ req[r].session \in used \intersect SessionIds
    BY <1>1, <1>5, <2>1
  <2>3. PICK s \in used \intersect SessionIds : s = req[r].session
    BY <2>2
  <2>4. s \in sessions \/ Excused(s)
    BY <1>5, <2>2, <2>3 DEF KeepInv, Grows
  <2>5. Wanted(s)'
    BY <1>5, <2>2, <2>3 DEF Wanted
  <2>6. s \in sessions' \/ Excused(s)'
    BY <1>2, <2>4, <2>5
  <2>. QED BY <2>2, <2>3, <2>6 DEF Excused, Expired
<1>6. ASSUME NEW c \in confirmed'
      PROVE  c[1] \in used' /\ (c[1] \in sessions' \intersect verified' \/ Excused(c[1])')
  <2>1. c[1] \in used /\ (c[1] \in sessions \intersect verified \/ Excused(c[1]))
    BY <1>6 DEF KeepInv, Grows
  <2>2. Wanted(c[1])'
    BY <1>6 DEF Wanted
  <2>3. c[1] \in SessionIds
    BY <1>0, <1>6 DEF Grows
  <2>. QED BY <1>2, <2>1, <2>2, <2>3 DEF Grows
<1>7. ASSUME NEW c \in confirmed', NEW q \in Requests,
             req'[q].pc \in {"checking", "checked"}, req'[q].session = c[1]
      PROVE  req'[q].held \/ c[1] \in overlapped'
  <2>1. c \in confirmed /\ c[1] \in used
    BY <1>7 DEF KeepInv, Grows
  <2>2. /\ req[q].pc \in {"checking", "checked"} /\ req'[q].held = req[q].held
        /\ req[q].session = c[1]
    BY <1>0, <1>7, <2>1, IdleFacts DEF Follows
  <2>. QED BY <2>1, <2>2 DEF KeepInv, Grows
<1>. QED
  <2>1. \A r \in Requests :
          Stored(r)' => confirmed' = {} /\ \A q \in Requests : Stored(q)' => q = r
    BY <1>4 DEF KeepInv, Grows
  <2>. QED BY <1>3, <1>5, <1>6, <1>7, <2>1 DEF KeepInv

\* A check looks a session up.
LEMMA LookupKeeps ==
    ASSUME AuthInv, KeepInv, NEW r \in Requests, NEW x \in RequestType, x.session \in used,
           LooksUp(r, x), UNCHANGED <<now, used, confirmed, loggedOut>>,
           overlapped \subseteq overlapped',
           \A q \in Requests : q # r /\ Busy(q) /\ req[q].session = x.session
              => x.session \in overlapped'
    PROVE  KeepInv'
<1>. DEFINE s == x.session
<1>0. UNCHANGED <<verified, expiresAt>> /\ Grows
  BY DEF LooksUp, RevokesAndAnswers, sessionVars, Grows, Expired
<1>1. CASE s \notin sessions /\ req' = Answered(r) /\ UNCHANGED sessionVars
  <2>1. \A q \in Requests : req'[q] \in {Idle, req[q]}
    BY <1>1 DEF AuthInv, TypeOK, Answered
  <2>. QED BY <1>0, <1>1, <2>1, FollowingKeeps DEF Follows, sessionVars
<1>2. CASE s \in sessions /\ Expired(s) /\ RevokesAndAnswers(r, s)
  <2>1. \A q \in Requests : req'[q] \in {Idle, req[q]}
    BY <1>2 DEF RevokesAndAnswers, Notified, Answered, AuthInv, TypeOK
  <2>2. \A t \in used : t \in sessions => t \in sessions' \/ Excused(t)'
    BY <1>0, <1>2 DEF RevokesAndAnswers, Excused, Expired
  <2>. QED BY <1>0, <2>1, <2>2, FollowingKeeps DEF Follows
<1>3. CASE /\ s \in sessions /\ ~Expired(s)
           /\ req' = [req EXCEPT ![r] =
                 [x EXCEPT !.pc = "checking", !.held = s \in verified, !.valid = ValidSession(s)]]
           /\ UNCHANGED sessionVars
  <2>1. /\ req'[r].pc = "checking" /\ req'[r].session = s
        /\ req'[r].held = (s \in verified)
        /\ \A q \in Requests : q # r => req'[q] = req[q]
    BY <1>3 DEF AuthInv, TypeOK, RequestType
  <2>2. UNCHANGED <<sessions, verified, expiresAt>>
    BY <1>3 DEF sessionVars
  <2>3. \A t : Excused(t) => Excused(t)'
    BY <2>2 DEF Excused, Expired
  <2>4. ASSUME NEW q \in Requests, NEW p \in Requests, q # p, Busy(q)', Busy(p)',
               req'[q].session = req'[p].session, req'[q].session # None
        PROVE  req'[q].session \in overlapped'
    <3>1. CASE q # r /\ p # r
      BY <2>1, <2>4, <3>1 DEF KeepInv, Busy
    <3>2. CASE q = r
      BY <2>1, <2>4, <3>2 DEF Busy
    <3>3. CASE p = r
      BY <2>1, <2>4, <3>3 DEF Busy
    <3>. QED BY <3>1, <3>2, <3>3
  <2>5. \A q \in Requests : Stored(q)' => Stored(q)
    BY <2>1 DEF Stored
  <2>6. ASSUME NEW q \in Requests, Busy(q)', req'[q].op = "confirm", confirmed' = {}
        PROVE  req'[q].session \in sessions' \/ Excused(req[q].session)'
    <3>1. CASE q = r
      BY <1>3, <2>1, <2>2, <3>1
    <3>2. CASE q # r
      BY <2>1, <2>2, <2>3, <2>6, <3>2 DEF KeepInv, Busy
    <3>. QED BY <3>1, <3>2
  <2>7. ASSUME NEW c \in confirmed', NEW q \in Requests,
               req'[q].pc \in {"checking", "checked"}, req'[q].session = c[1]
        PROVE  req'[q].held \/ c[1] \in overlapped'
    <3>1. CASE q = r
      <4>1. s \in verified \/ s \in overlapped
        BY <1>3, <2>1, <2>7, <3>1
        DEF KeepInv, Excused, AuthInv, HistoryInv, LoggedOutStaysOut
      <4>. QED BY <2>1, <2>7, <3>1, <4>1
    <3>2. CASE q # r
      BY <2>1, <2>7, <3>2 DEF KeepInv
    <3>. QED BY <3>1, <3>2
  <2>8. \A c \in confirmed' :
          c[1] \in used' /\ (c[1] \in sessions' \intersect verified' \/ Excused(c[1])')
    BY <2>2, <2>3 DEF KeepInv
  <2>9. \A q \in Requests :
          Stored(q)' => confirmed' = {} /\ \A p \in Requests : Stored(p)' => p = q
    BY <2>5 DEF KeepInv
  <2>. QED BY <2>4, <2>6, <2>7, <2>8, <2>9 DEF KeepInv
<1>. QED BY <1>1, <1>2, <1>3 DEF LooksUp

\* A secret is stored: no other confirmation has stored one.
LEMMA StoringKeeps ==
    ASSUME AuthInv, KeepInv, NEW r \in Requests, TotpStored(r)
    PROVE  KeepInv'
<1>1. /\ req[r].pc = "updating" /\ req[r].op = "confirm" /\ totp = None
      /\ UNCHANGED <<now, sessions, verified, expiresAt, used, confirmed, loggedOut, overlapped>>
  BY DEF TotpStored, MayStoreTotp, sessionVars, historyVars
<1>2. /\ req'[r].pc = "updated" /\ req'[r].op = "confirm" /\ req'[r].session = req[r].session
      /\ \A q \in Requests : q # r => req'[q] = req[q]
  BY <1>1 DEF TotpStored, AuthInv, TypeOK, RequestType
<1>3. confirmed = {}
  <2>1. \A c \in confirmed : c[2] \in Enrolments
    BY DEF AuthInv, TypeOK
  <2>. QED BY <1>1, <2>1, NoneAssumption DEF AuthInv, HistoryInv, ConfirmedIsStored
<1>4. ASSUME NEW q \in Requests, Stored(q)' PROVE q = r
  <2>1. SUFFICES ASSUME q # r PROVE FALSE
    OBVIOUS
  <2>2. Stored(q)
    BY <1>2, <1>4, <2>1 DEF Stored
  <2>3. totp \in Enrolments
    BY <2>2 DEF Stored, AuthInv, RequestInv, RequestOK
  <2>. QED BY <1>1, <2>3, NoneAssumption
<1>5. \A q \in Requests :
        /\ req'[q].session = req[q].session /\ (Busy(q)' => Busy(q))
        /\ (Busy(q)' /\ req'[q].op = "confirm" => req[q].op = "confirm")
  BY <1>1, <1>2 DEF Busy
<1>6. \A s : Excused(s) => Excused(s)'
  BY <1>1 DEF Excused, Expired
<1>7. ASSUME NEW q \in Requests, Busy(q)', req'[q].op = "confirm"
      PROVE  req'[q].session \in sessions' \/ Excused(req[q].session)'
  BY <1>1, <1>3, <1>5, <1>7 DEF KeepInv, Excused, Expired
<1>8. \A q, p \in Requests :
        q # p /\ Busy(q)' /\ Busy(p)' /\ req'[q].session = req'[p].session =>
            req'[q].session \in overlapped' \union {None}
  BY <1>1, <1>5 DEF KeepInv
<1>. QED BY <1>1, <1>3, <1>4, <1>7, <1>8 DEF KeepInv

\* The confirmation is answered: it keeps its session, if that is there.
LEMMA ConfirmingKeeps ==
    ASSUME AuthInv, KeepInv, NEW r \in Requests, Confirmed(r)
    PROVE  KeepInv'
<1>. DEFINE s == req[r].session
<1>1. /\ Stored(r) /\ Busy(r)
      /\ sessions' = Kept(s) /\ verified' = verified \union Kept(s)
      /\ confirmed' = confirmed \union {<<s, req[r].about>>}
      /\ UNCHANGED <<now, expiresAt, used, loggedOut, overlapped>>
  BY DEF Confirmed, Stored, Busy
<1>2. /\ req'[r] = Idle /\ \A q \in Requests : req'[q] \in {Idle, req[q]}
  BY DEF Confirmed, Notified, Answered, AuthInv, TypeOK
<1>3. confirmed = {} /\ \A q \in Requests : Stored(q) => q = r
  BY <1>1 DEF KeepInv
<1>4. s \in used /\ s # None
  BY <1>1, NoneAssumption DEF Stored, AuthInv, RequestInv, RequestOK
<1>5. \A c \in confirmed' : c[1] = s
  BY <1>1, <1>3
<1>6. s \in sessions' \intersect verified' \/ Expired(s) \/ s \in loggedOut \union overlapped
  BY <1>1, <1>3 DEF KeepInv, Stored, Excused, Kept
<1>7. \A q \in Requests : Busy(q)' => q # r /\ Busy(q) /\ req'[q] = req[q]
  BY <1>2, IdleFacts DEF Busy
<1>8. \A q \in Requests : Busy(q)' /\ req'[q].session = s => s \in overlapped'
  BY <1>1, <1>4, <1>7 DEF KeepInv
<1>9. \A q \in Requests : ~Stored(q)'
  BY <1>2, <1>3, IdleFacts DEF Stored
<1>10. \A q, p \in Requests :
        q # p /\ Busy(q)' /\ Busy(p)' /\ req'[q].session = req'[p].session =>
            req'[q].session \in overlapped' \union {None}
  BY <1>1, <1>7 DEF KeepInv
<1>11. \A c \in confirmed' :
         c[1] \in used' /\ (c[1] \in sessions' \intersect verified' \/ Excused(c[1])')
  BY <1>1, <1>4, <1>5, <1>6 DEF Excused, Expired
<1>12. ASSUME NEW c \in confirmed', NEW q \in Requests,
              req'[q].pc \in {"checking", "checked"}, req'[q].session = c[1]
       PROVE  req'[q].held \/ c[1] \in overlapped'
  BY <1>5, <1>8, <1>12 DEF Busy
<1>13. confirmed' # {}
  BY <1>1
<1>. QED BY <1>9, <1>10, <1>11, <1>12, <1>13 DEF KeepInv

\* A failed check revokes the session it is of: one that nobody relies on, or
\* that another request used meanwhile.
LEMMA FailingKeeps ==
    ASSUME AuthInv, KeepInv, NEW r \in Requests, CheckFails(r)
    PROVE  KeepInv'
<1>. PICK s : s = req[r].session
  OBVIOUS
<1>1. /\ req[r].pc = "checked" /\ ~req[r].held /\ sessions' = sessions \ {s}
      /\ UNCHANGED <<now, verified, expiresAt, used, confirmed, loggedOut, overlapped>>
  BY DEF CheckFails, PassesCheck, RevokesAndAnswers, historyVars, AuthInv, TypeOK, RequestType
<1>2. /\ req'[r] = Idle /\ \A q \in Requests : req'[q] \in {Idle, req[q]}
  BY DEF CheckFails, RevokesAndAnswers, Notified, Answered, AuthInv, TypeOK
<1>3. s # None /\ Busy(r)
  BY <1>1 DEF AuthInv, RequestInv, RequestOK, Busy
<1>4. ASSUME Wanted(s)' PROVE s \in overlapped
  <2>1. CASE \E c \in confirmed : c[1] = s
    BY <1>1, <2>1 DEF KeepInv
  <2>2. CASE \E q \in Requests : Busy(q)' /\ req'[q].session = s
    <3>1. PICK q \in Requests : Busy(q)' /\ req'[q].session = s
      BY <2>2
    <3>2. q # r /\ Busy(q) /\ req[q].session = s
      BY <1>2, <3>1, IdleFacts DEF Busy
    <3>. QED BY <1>3, <3>2 DEF KeepInv
  <2>. QED BY <1>1, <1>4, <2>1, <2>2 DEF Wanted
<1>5. ASSUME NEW t \in used, t \in sessions PROVE t \in sessions' \/ Excused(t)' \/ ~Wanted(t)'
  BY <1>1, <1>4, <1>5 DEF Excused
<1>6. Grows
  BY <1>1 DEF Grows, Expired
<1>. QED BY <1>2, <1>5, <1>6, FollowingKeeps DEF Follows

\* A logout revokes its own session, and is the excuse.
LEMMA LogoutKeeps ==
    ASSUME AuthInv, KeepInv, NEW r \in Requests, Logout(r)
    PROVE  KeepInv'
<1>1. PICK s : s = req[r].session
  OBVIOUS
<1>2. /\ sessions' = sessions \ {s} /\ loggedOut' = loggedOut \union {s}
      /\ UNCHANGED <<now, verified, expiresAt, used, confirmed, overlapped>>
      /\ \A q \in Requests : req'[q] \in {Idle, req[q]}
  BY <1>1 DEF Logout, RevokesAndAnswers, Notified, Answered, AuthInv, TypeOK
<1>3. Grows
  BY <1>2 DEF Grows, Expired
<1>4. \A t \in used : t \in sessions => t \in sessions' \/ Excused(t)'
  BY <1>2 DEF Excused
<1>. QED BY <1>2, <1>3, <1>4, FollowingKeeps DEF Follows

\* A request is called, or its service checks again.
LEMMA CheckingKeeps ==
    ASSUME AuthInv, KeepInv, NEW r \in Requests,
           \/ ChecksAgain(r)
           \/ \E op \in SessionOps, s \in SessionIds, e \in Enrolments \union {None} :
                 s \in used /\ SessionRequestCalled(r, op, s, e)
    PROVE  KeepInv'
<1>1. CASE ChecksAgain(r)
  <2>. DEFINE x == [req[r] EXCEPT !.checks = 1]
  <2>1. req[r] \in RequestType /\ RequestOK(req[r], totp, used, sessions) /\ req[r].pc = "checked"
    BY <1>1 DEF AuthInv, TypeOK, RequestInv, ChecksAgain
  <2>2. x \in RequestType /\ x.session = req[r].session /\ LooksUp(r, x)
    BY <1>1, <2>1 DEF RequestType, ChecksAgain
  <2>3. UNCHANGED <<now, used, confirmed, loggedOut, overlapped>>
    BY <1>1 DEF ChecksAgain, historyVars
  <2>. HIDE DEF x
  <2>4. x.session \in used /\ x.session # None /\ Busy(r)
    BY <2>1, <2>2 DEF RequestOK, Busy
  <2>5. \A q \in Requests : q # r /\ Busy(q) /\ req[q].session = x.session
          => x.session \in overlapped'
    BY <2>2, <2>3, <2>4 DEF KeepInv
  <2>. QED BY <2>2, <2>3, <2>4, <2>5, LookupKeeps
<1>2. ASSUME NEW op \in SessionOps, NEW s \in SessionIds, NEW e \in Enrolments \union {None},
             s \in used, SessionRequestCalled(r, op, s, e)
      PROVE  KeepInv'
  <2>. DEFINE x == [Idle EXCEPT !.op = op, !.session = s, !.checks = Checks(op), !.about = e]
  <2>1. Checks(op) \in 0..2
    BY DEF Checks
  <2>2. x \in RequestType /\ x.session = s
    BY <2>1 DEF Idle, RequestType, Ops, SessionOps, Phases
  <2>3. /\ LooksUp(r, x) /\ UNCHANGED <<now, used, confirmed, loggedOut>>
        /\ overlapped' = IF InUse(s) THEN overlapped \union {s} ELSE overlapped
    BY <1>2 DEF SessionRequestCalled
  <2>. HIDE DEF x
  <2>4. \A q \in Requests : q # r /\ Busy(q) /\ req[q].session = x.session
          => x.session \in overlapped'
    BY <2>2, <2>3 DEF Busy, InUse
  <2>. QED BY <1>2, <2>2, <2>3, <2>4, LookupKeeps
<1>. QED BY <1>1, <1>2

\* A new session is none of those that matter.
LEMMA CreatingKeeps ==
    ASSUME AuthInv, KeepInv, NEW r \in Requests, NEW b \in BOOLEAN, CreatesSession(r, b),
           UNCHANGED <<now, historyVars>>
    PROVE  KeepInv'
<1>1. PICK s \in SessionIds \ used :
         /\ used' = used \union {s} /\ sessions' = sessions \union {s}
         /\ verified \subseteq verified'
         /\ expiresAt' = [expiresAt EXCEPT ![s] = now + SessionTtl]
         /\ req' = Answered(r)
  BY DEF CreatesSession
<1>2. \A q \in Requests : req'[q] \in {Idle, req[q]}
  BY <1>1 DEF Answered, AuthInv, TypeOK
<1>3. Grows
  <2>1. \A t \in used \intersect SessionIds : Expired(t) => Expired(t)'
    BY <1>1 DEF Expired, AuthInv, TypeOK
  <2>. QED BY <1>1, <2>1 DEF Grows, historyVars
<1>. QED BY <1>1, <1>2, <1>3, FollowingKeeps DEF Follows

\* Nothing is forgotten, no session is made and none revoked.
LEMMA PlainKeeps ==
    ASSUME AuthInv, KeepInv, \A q \in Requests : Follows(q),
           UNCHANGED <<now, sessionVars, historyVars>>, used \subseteq used'
    PROVE  KeepInv'
<1>1. Grows /\ sessions' = sessions
  BY DEF Grows, Expired, sessionVars, historyVars
<1>. QED BY <1>1, FollowingKeeps

\* Every step keeps the session an enrolment is or was confirmed by.
LEMMA NextKeeps == AuthInv /\ KeepInv /\ [Next]_vars => KeepInv'
<1>. SUFFICES ASSUME AuthInv, KeepInv, [Next]_vars PROVE KeepInv'
  OBVIOUS
<1>1. CASE Tick
  <2>1. /\ UNCHANGED <<sessionVars, req, used, historyVars>> /\ now' = now + 1
        /\ now \in Nat /\ expiresAt \in [SessionIds -> Nat]
    BY <1>1, TimeAssumption DEF Tick, AuthInv, TypeOK
  <2>2. \A s \in used \intersect SessionIds : Expired(s) => Expired(s)'
    BY <2>1 DEF Expired, sessionVars
  <2>3. Grows /\ sessions' = sessions /\ \A q \in Requests : Follows(q)
    BY <2>1, <2>2 DEF Grows, Follows, sessionVars, historyVars
  <2>. QED BY <2>3, FollowingKeeps
<1>2. CASE UNCHANGED vars
  BY <1>2, PlainKeeps DEF Follows, vars
<1>3. ASSUME NEW r \in Requests, Called(r) PROVE KeepInv'
  <2>1. ASSUME SetupCalled(r) \/ LoginCalled(r) \/ \E c \in Challenges : VerifyCalled(r, c)
        PROVE  KeepInv'
    <3>1. /\ UNCHANGED <<now, sessionVars, used, historyVars>>
          /\ \A q \in Requests : q # r => req'[q] = req[q]
      BY <2>1 DEF SetupCalled, LoginCalled, VerifyCalled, AuthInv, TypeOK
    <3>2. req'[r] = req[r] \/ (req'[r].session = None /\ req'[r].op # "confirm")
      <4>1. \A op : /\ [Idle EXCEPT !.op = op, !.pc = "reading"].session = None
                    /\ [Idle EXCEPT !.op = op, !.pc = "reading"].op = op
        BY DEF Idle
      <4>2. \A c : /\ [Idle EXCEPT !.op = "verify", !.pc = "reading", !.about = c].session = None
                   /\ [Idle EXCEPT !.op = "verify", !.pc = "reading", !.about = c].op = "verify"
        BY DEF Idle
      <4>3. \/ UNCHANGED req
            \/ \E x : req' = [req EXCEPT ![r] = x] /\ x.session = None /\ x.op # "confirm"
        <5>1. CASE SetupCalled(r)
          BY <4>1, <5>1, "setup" # "confirm" DEF SetupCalled
        <5>2. CASE LoginCalled(r)
          BY <4>1, <5>2, "login" # "confirm" DEF LoginCalled
        <5>3. ASSUME NEW c \in Challenges, VerifyCalled(r, c)
              PROVE  \/ UNCHANGED req
                     \/ \E x : req' = [req EXCEPT ![r] = x] /\ x.session = None /\ x.op # "confirm"
          BY <4>2, <5>3, "verify" # "confirm" DEF VerifyCalled
        <5>. QED BY <2>1, <5>1, <5>2, <5>3
      <4>. QED BY <4>3 DEF AuthInv, TypeOK
    <3>. QED BY <3>1, <3>2, PlainKeeps DEF Follows
  <2>. QED BY <1>3, <2>1, CheckingKeeps DEF Called
<1>4. ASSUME NEW r \in Requests, NEW p \in Phases \ {"idle", "checking"},
             Busy(r), req' = [req EXCEPT ![r].pc = p],
             p = "checked" => req[r].pc = "checking", p = "updated" => req[r].op # "confirm",
             UNCHANGED <<now, sessionVars, used, historyVars>>
      PROVE  KeepInv'
  <2>1. /\ req'[r].pc = p /\ req'[r].session = req[r].session /\ req'[r].op = req[r].op
        /\ req'[r].held = req[r].held /\ \A q \in Requests : q # r => req'[q] = req[q]
    BY <1>4 DEF AuthInv, TypeOK, RequestType
  <2>2. \A q \in Requests : Follows(q)
    BY <1>4, <2>1 DEF Follows, Stored
  <2>. QED BY <1>4, <2>2, PlainKeeps
<1>5. ASSUME NEW r \in Requests, req' = Answered(r), used \subseteq used',
             UNCHANGED <<now, sessionVars, historyVars>>
      PROVE  KeepInv'
  <2>1. \A q \in Requests : Follows(q)
    BY <1>5 DEF Answered, Follows, AuthInv, TypeOK
  <2>. QED BY <1>5, <2>1, PlainKeeps
<1>6. ASSUME NEW r \in Requests, Continues(r) PROVE KeepInv'
  <2>1. CASE CheckFails(r) \/ ChecksAgain(r) \/ Logout(r) \/ TotpStored(r) \/ Confirmed(r)
    BY <2>1, FailingKeeps, CheckingKeeps, LogoutKeeps, StoringKeeps, ConfirmingKeeps
  <2>2. CASE ReadOpens(r) \/ SocketOpens(r)
    <3>1. /\ UNCHANGED <<now, sessionVars, used, historyVars>> /\ Busy(r)
          /\ \A q \in Requests : q # r => req'[q] = req[q]
          /\ req'[r].session = req[r].session /\ req'[r].op = req[r].op
          /\ req'[r].held = req[r].held
          /\ \/ req[r].pc = "checking" /\ req'[r].pc = "checked"
             \/ req'[r].pc \in {"read", "open"}
      <4>1. req[r] \in RequestType /\ req \in [Requests -> RequestType]
        BY DEF AuthInv, TypeOK
      <4>2. CASE ReadOpens(r)
        BY <4>1, <4>2 DEF ReadOpens, Busy, RequestType
      <4>3. CASE SocketOpens(r)
        BY <4>1, <4>3 DEF SocketOpens, Passed, Busy, RequestType
      <4>. QED BY <2>2, <4>2, <4>3
    <3>2. \A q \in Requests : Follows(q)
      BY <3>1 DEF Follows, Stored
    <3>. QED BY <3>1, <3>2, PlainKeeps
  <2>3. CASE AccessAccepted(r) \/ EnrolReads(r) \/ ConfirmUpdates(r) \/ LoginHashes(r)
    <3>1. PICK p \in {"accepted", "reading", "updating", "hashing"} :
             req' = [req EXCEPT ![r].pc = p]
      BY <2>3 DEF AccessAccepted, EnrolReads, ConfirmUpdates, LoginHashes
    <3>2. Busy(r) /\ UNCHANGED <<now, sessionVars, used, historyVars>>
      BY <2>3 DEF AccessAccepted, EnrolReads, ConfirmUpdates, LoginHashes, Passed, Busy
    <3>. QED BY <1>4, <3>1, <3>2 DEF Phases
  <2>4. CASE PasswordStored(r)
    BY <1>4, <2>4 DEF PasswordStored, Busy, Phases
  <2>5. CASE SetupReads(r)
    BY <1>4, <1>5, <2>5 DEF SetupReads, Busy, Phases
  <2>6. CASE \/ RequestFails(r) \/ AccessAnswered(r) \/ SocketCloses(r) \/ ConfirmRefused(r)
             \/ TotpRefused(r) \/ PasswordRefused(r) \/ LoginRefused(r) \/ PasswordWrong(r)
             \/ VerifyRefused(r) \/ EnrolAnswered(r) \/ EnrolmentExpired(r) \/ AsksForCode(r)
    BY <1>5, <2>6
    DEF RequestFails, AccessAnswered, SocketCloses, ConfirmRefused, TotpRefused,
        PasswordRefused, LoginRefused, PasswordWrong, VerifyRefused, EnrolAnswered,
        EnrolmentExpired, AsksForCode
  <2>7. CASE SetupAnswered(r) \/ LogsIn(r) \/ Verifies(r)
    <3>1. /\ \E b \in BOOLEAN : CreatesSession(r, b)
          /\ UNCHANGED <<now, historyVars>>
      BY <2>7 DEF SetupAnswered, LogsIn, Verifies
    <3>. QED BY <3>1, CreatingKeeps
  <2>. QED BY <1>6, <2>1, <2>2, <2>3, <2>4, <2>5, <2>6, <2>7 DEF Continues
<1>. QED BY <1>1, <1>2, <1>3, <1>6 DEF Next

\* Whoever confirms an enrolment, one request at a time, stays signed in until
\* it logs out or its session expires: whatever the other sessions do meanwhile.
THEOREM AuthKeepsConfirming == Spec => []ConfirmingSessionKept
<1>1. Init => KeepInv
  <2>. SUFFICES ASSUME Init PROVE KeepInv
    OBVIOUS
  <2>1. confirmed = {} /\ \A q \in Requests : ~Busy(q) /\ ~Stored(q)
    BY IdleFacts DEF Init, Busy, Stored
  <2>2. /\ \A q, r \in Requests : ~(q # r /\ Busy(q) /\ Busy(r))
        /\ \A r \in Requests : ~(Busy(r) /\ req[r].op = "confirm")
        /\ \A c : c \notin confirmed
    BY <2>1
  <2>3. \A q, r \in Requests :
          q # r /\ Busy(q) /\ Busy(r) /\ req[q].session = req[r].session =>
              req[q].session \in overlapped \union {None}
    BY <2>2
  <2>4. \A r \in Requests :
          Stored(r) => confirmed = {} /\ \A q \in Requests : Stored(q) => q = r
    BY <2>1
  <2>5. confirmed = {} =>
          \A r \in Requests : Busy(r) /\ req[r].op = "confirm" =>
              req[r].session \in sessions \/ Excused(req[r].session)
    <3>1. ASSUME NEW r \in Requests, Busy(r) PROVE FALSE
      BY <2>1, <3>1
    <3>. QED BY <3>1
  <2>. QED BY <2>2, <2>3, <2>4, <2>5, Zenon DEF KeepInv
<1>2. KeepInv => ConfirmingSessionKept
  BY DEF KeepInv, ConfirmingSessionKept, Excused
<1>. QED BY <1>1, <1>2, NextKeeps, AuthInvariant, PTL DEF Spec
=============================================================================
