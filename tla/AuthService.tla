----------------------------- MODULE AuthService -----------------------------
(***************************************************************************)
(* Sessions and second factor of one Leominal server: the requests that    *)
(* set the password, log in, enrol a second factor, log out or only need a *)
(* session, and the sockets a session holds open.                          *)
(*                                                                         *)
(* An action ends at an await.  The state file is the atomic store of      *)
(* AtomicStore: a read takes its state at one moment between call and      *)
(* continuation, an update applies at one moment before its continuation.  *)
(* A password or a code is found right or wrong where it is looked at, and *)
(* the rate limiters may deny any try.  An id stands for what it names.    *)
(* A request slot is used again after its answer.  A restart, which        *)
(* forgets everything but the file, is not modelled.                       *)
(***************************************************************************)
EXTENDS Integers, Sequences, FiniteSets

CONSTANTS
    Requests,       \* bound: requests handled at once
    SessionIds,     \* bound: sessions ever created
    Enrolments,     \* bound: TOTP enrolments ever started
    Challenges,     \* bound: TOTP login challenges ever created
    None,           \* null
    SessionTtl, EnrolmentTtl, LoginTtl,
    MaxTime         \* bound: the last moment of the clock

ASSUME NoneAssumption == None \notin SessionIds \union Enrolments \union Challenges
ASSUME TimeAssumption ==
    /\ {SessionTtl, EnrolmentTtl, LoginTtl} \subseteq Nat \ {0}
    /\ MaxTime \in Nat

VARIABLES
    now,
    password,       \* the state file has a password
    totp,           \* the enrolment whose secret the state file has, or None
    sessions,       \* the keys of the session map
    verified,       \* the sessions made or marked as verified by a code
    expiresAt,      \* when a session expires
    enrolments, enrolmentExpiresAt,
    challenges, challengeExpiresAt,
    req,            \* what a request knows and where its handler is
    used,           \* history: ids once issued
    confirmed,      \* history: <<session, enrolment>> of confirmations answered
    loggedOut,      \* history: sessions logged out
    overlapped      \* history: sessions two requests used at once

storeVars   == <<password, totp>>
sessionVars == <<sessions, verified, expiresAt>>
totpVars    == <<enrolments, enrolmentExpiresAt, challenges, challengeExpiresAt>>
historyVars == <<confirmed, loggedOut, overlapped>>
vars == <<now, storeVars, sessionVars, totpVars, req, used, historyVars>>

SessionOps == {"access", "socket", "logout", "enrol", "confirm"}
Ops == SessionOps \union {"setup", "login", "verify"}

\* "checking" and "checked" are before and after readFile in validateSession,
\* "reading" and "read" in the operation itself.
Phases == {"idle", "checking", "checked", "reading", "read", "hashing",
           "updating", "updated", "accepted", "open"}

Idle == [op |-> "access", pc |-> "idle", checks |-> 0, session |-> None,
         held |-> FALSE, about |-> None, seenPassword |-> FALSE,
         seenTotp |-> None, valid |-> FALSE, present |-> FALSE]

\* "held" is twoFactorVerified in the session record a check has in hand, "about"
\* the enrolment or challenge of the request.  "valid" and "present" are
\* history: the session was valid when last looked up, and there when its
\* socket opened.
RequestType ==
    [op : Ops, pc : Phases, checks : 0..2, session : SessionIds \union {None},
     held : BOOLEAN,
     about : Enrolments \union Challenges \union {None}, seenPassword : BOOLEAN,
     seenTotp : Enrolments \union {None},
     valid : BOOLEAN, present : BOOLEAN]

\* Types; a slot that is free knows nothing, and only issued ids are in the maps.
TypeOK ==
    /\ now \in 0..MaxTime
    /\ password \in BOOLEAN
    /\ totp \in Enrolments \union {None}
    /\ sessions \subseteq SessionIds
    /\ verified \subseteq SessionIds
    /\ expiresAt \in [SessionIds -> Nat]
    /\ enrolments \subseteq Enrolments
    /\ enrolmentExpiresAt \in [Enrolments -> Nat]
    /\ challenges \subseteq Challenges
    /\ challengeExpiresAt \in [Challenges -> Nat]
    /\ req \in [Requests -> RequestType]
    /\ \A r \in Requests : req[r].pc = "idle" => req[r] = Idle
    /\ sessions \union enrolments \union challenges \subseteq used
    /\ used \subseteq SessionIds \union Enrolments \union Challenges
    /\ confirmed \subseteq SessionIds \X Enrolments
    /\ loggedOut \subseteq SessionIds
    /\ overlapped \subseteq SessionIds

Init ==
    /\ now = 0
    /\ password = FALSE
    /\ totp = None
    /\ sessions = {}
    /\ verified = {}
    /\ expiresAt = [s \in SessionIds |-> 0]
    /\ enrolments = {}
    /\ enrolmentExpiresAt = [e \in Enrolments |-> 0]
    /\ challenges = {}
    /\ challengeExpiresAt = [c \in Challenges |-> 0]
    /\ req = [r \in Requests |-> Idle]
    /\ used = {}
    /\ confirmed = {}
    /\ loggedOut = {}
    /\ overlapped = {}

-----------------------------------------------------------------------------
(* Sessions.                                                                *)

\* The answer gives the slot back.  (Mutant: what the request knew stays.)
Answered_Keeps(r) == [req EXCEPT ![r].pc = "idle"]
Answered(r) == [req EXCEPT ![r] = Idle]

\* The sockets of revoked sessions close, as notifySessionRevoked tells them.
\* (Mutant: it is called for none.)
Notified_Nobody(requests, revoked) == requests
Notified(requests, revoked) ==
    [q \in Requests |->
        IF requests[q].pc = "open" /\ requests[q].session \in revoked
        THEN Idle ELSE requests[q]]

\* revokeSession, and the answer.
RevokesAndAnswers(r, s) ==
    /\ sessions' = sessions \ {s}
    /\ req' = Notified(Answered(r), {s} \intersect sessions)
    /\ UNCHANGED <<verified, expiresAt>>

\* createSession, and the answer.
CreatesSession(r, isVerified) ==
    \E s \in SessionIds \ used :
        /\ used' = used \union {s}
        /\ sessions' = sessions \union {s}
        /\ verified' = IF isVerified THEN verified \union {s} ELSE verified
        /\ expiresAt' = [expiresAt EXCEPT ![s] = now + SessionTtl]
        /\ req' = Answered(r)

Expired(s) == expiresAt[s] <= now

\* What validateSession asks, at one moment.
ValidSession(s) ==
    s \in sessions /\ ~Expired(s) /\ (totp # None => s \in verified)

InUse(s) == \E q \in Requests : req[q].pc # "idle" /\ req[q].pc # "open" /\ req[q].session = s

\* validateSession up to its await, of a request in the state "request".
LooksUp(r, request) ==
    LET s == request.session IN
    \/ /\ s \in sessions
       /\ ~Expired(s)
       /\ req' = [req EXCEPT ![r] =
              [request EXCEPT !.pc = "checking", !.held = s \in verified,
                              !.valid = ValidSession(s)]]
       /\ UNCHANGED sessionVars
    \/ /\ s \in sessions
       /\ Expired(s)
       /\ RevokesAndAnswers(r, s)
    \/ /\ s \notin sessions
       /\ req' = Answered(r)
       /\ UNCHANGED sessionVars

\* The read of the state file in flight takes its state.
ReadOpens(r) ==
    /\ req[r].pc \in {"checking", "reading"}
    /\ req' = [req EXCEPT ![r] =
           [req[r] EXCEPT !.pc = IF req[r].pc = "checking" THEN "checked" ELSE "read",
                          !.seenPassword = password, !.seenTotp = totp]]
    /\ UNCHANGED <<now, storeVars, sessionVars, totpVars, used, historyVars>>

\* The session in hand passes the second half of validateSession.  (Mutant:
\* the flag is looked at only where the session was made.)
PassesCheck_Unasked(r) == TRUE
PassesCheck(r) == req[r].seenTotp # None => req[r].held

CheckFails(r) ==
    /\ req[r].pc = "checked"
    /\ ~PassesCheck(r)
    /\ RevokesAndAnswers(r, req[r].session)
    /\ UNCHANGED <<now, storeVars, totpVars, used, historyVars>>

Passed(r) == req[r].pc = "checked" /\ PassesCheck(r) /\ req[r].checks = 1

\* The route's check is over, the service makes its own.
ChecksAgain(r) ==
    /\ req[r].pc = "checked"
    /\ PassesCheck(r)
    /\ req[r].checks = 2
    /\ LooksUp(r, [req[r] EXCEPT !.checks = 1])
    /\ UNCHANGED <<now, storeVars, totpVars, used, historyVars>>

\* A file-system call fails, and with it the request.
RequestFails(r) ==
    /\ req[r].pc \in {"checking", "reading", "updating"}
    /\ req' = Answered(r)
    /\ UNCHANGED <<now, storeVars, sessionVars, totpVars, used, historyVars>>

-----------------------------------------------------------------------------
(* Requests that need a session.                                            *)

\* The service checks again in startTotpEnrollment and confirmTotpEnrollment.
Checks(op) == IF op \in {"enrol", "confirm"} THEN 2 ELSE 1

SessionRequestCalled(r, op, s, e) ==
    /\ req[r].pc = "idle"
    /\ op = "confirm" => e \in used
    /\ op # "confirm" => e = None
    /\ LooksUp(r, [Idle EXCEPT !.op = op, !.session = s, !.checks = Checks(op),
                               !.about = e])
    /\ overlapped' = IF InUse(s) THEN overlapped \union {s} ELSE overlapped
    /\ UNCHANGED <<now, storeVars, totpVars, used, confirmed, loggedOut>>

\* A terminal, layout, file or upload request is let through, and answered.
AccessAccepted(r) ==
    /\ Passed(r)
    /\ req[r].op = "access"
    /\ req' = [req EXCEPT ![r].pc = "accepted"]
    /\ UNCHANGED <<now, storeVars, sessionVars, totpVars, used, historyVars>>

AccessAnswered(r) ==
    /\ req[r].pc = "accepted"
    /\ req' = Answered(r)
    /\ UNCHANGED <<now, storeVars, sessionVars, totpVars, used, historyVars>>

\* The socket's handler goes on and subscribes to revocations.
SocketOpens(r) ==
    /\ Passed(r)
    /\ req[r].op = "socket"
    /\ req' = [req EXCEPT ![r] =
           [req[r] EXCEPT !.pc = "open", !.present = req[r].session \in sessions]]
    /\ UNCHANGED <<now, storeVars, sessionVars, totpVars, used, historyVars>>

SocketCloses(r) ==
    /\ req[r].pc = "open"
    /\ req' = Answered(r)
    /\ UNCHANGED <<now, storeVars, sessionVars, totpVars, used, historyVars>>

Logout(r) ==
    /\ Passed(r)
    /\ req[r].op = "logout"
    /\ RevokesAndAnswers(r, req[r].session)
    /\ loggedOut' = loggedOut \union {req[r].session}
    /\ UNCHANGED <<now, storeVars, totpVars, used, confirmed, overlapped>>

-----------------------------------------------------------------------------
(* Enrolling a second factor.                                               *)

EnrolReads(r) ==
    /\ Passed(r)
    /\ req[r].op = "enrol"
    /\ req' = [req EXCEPT ![r].pc = "reading"]
    /\ UNCHANGED <<now, storeVars, sessionVars, totpVars, used, historyVars>>

\* The QR code, awaited last, changes nothing.
EnrolAnswered(r) ==
    /\ req[r].pc = "read"
    /\ req[r].op = "enrol"
    /\ IF req[r].seenPassword /\ req[r].seenTotp = None
       THEN \E e \in Enrolments \ used :
              /\ used' = used \union {e}
              /\ enrolments' = enrolments \union {e}
              /\ enrolmentExpiresAt' =
                    [enrolmentExpiresAt EXCEPT ![e] = now + EnrolmentTtl]
       ELSE UNCHANGED <<used, enrolments, enrolmentExpiresAt>>
    /\ req' = Answered(r)
    /\ UNCHANGED <<now, storeVars, sessionVars, challenges, challengeExpiresAt, historyVars>>

ValidEnrolment(e) == e \in enrolments /\ enrolmentExpiresAt[e] > now

EnrolmentExpired(r) ==
    /\ Passed(r)
    /\ req[r].op = "confirm"
    /\ ~ValidEnrolment(req[r].about)
    /\ enrolments' = enrolments \ {req[r].about}
    /\ req' = Answered(r)
    /\ UNCHANGED <<now, storeVars, sessionVars, enrolmentExpiresAt, challenges,
                   challengeExpiresAt, used, historyVars>>

\* RATE_LIMITED or INVALID_TOTP.
ConfirmRefused(r) ==
    /\ Passed(r)
    /\ req[r].op = "confirm"
    /\ ValidEnrolment(req[r].about)
    /\ req' = Answered(r)
    /\ UNCHANGED <<now, storeVars, sessionVars, totpVars, used, historyVars>>

ConfirmUpdates(r) ==
    /\ Passed(r)
    /\ req[r].op = "confirm"
    /\ ValidEnrolment(req[r].about)
    /\ req' = [req EXCEPT ![r].pc = "updating"]
    /\ UNCHANGED <<now, storeVars, sessionVars, totpVars, used, historyVars>>

\* The check that confirmTotpEnrollment's updater makes.  (Mutant: it makes none,
\* there was none when the enrolment started.)
MayStoreTotp_Always == TRUE
MayStoreTotp == totp = None

TotpStored(r) ==
    /\ req[r].pc = "updating"
    /\ req[r].op = "confirm"
    /\ MayStoreTotp
    /\ totp' = req[r].about
    /\ req' = [req EXCEPT ![r].pc = "updated"]
    /\ UNCHANGED <<now, password, sessionVars, totpVars, used, historyVars>>

TotpRefused(r) ==
    /\ req[r].pc = "updating"
    /\ req[r].op = "confirm"
    /\ ~MayStoreTotp
    /\ req' = Answered(r)
    /\ UNCHANGED <<now, storeVars, sessionVars, totpVars, used, historyVars>>

\* The sessions markOnlySessionTwoFactorVerified leaves.  (Mutants: none, as if
\* the map were cleared and nothing set; the one confirmed by, still there or not.)
Kept_None(s) == {}
Kept_Anyway(s) == {s}
Kept(s) == IF s \in sessions /\ ~Expired(s) THEN {s} ELSE {}

Confirmed(r) ==
    LET s == req[r].session IN
    /\ req[r].pc = "updated"
    /\ req[r].op = "confirm"
    /\ sessions' = Kept(s)
    /\ verified' = verified \union Kept(s)
    /\ req' = Notified(Answered(r), sessions \ Kept(s))
    /\ enrolments' = enrolments \ {req[r].about}
    /\ confirmed' = confirmed \union {<<s, req[r].about>>}
    /\ UNCHANGED <<now, storeVars, expiresAt, enrolmentExpiresAt, challenges,
                   challengeExpiresAt, used, loggedOut, overlapped>>

-----------------------------------------------------------------------------
(* The password, and logging in.                                            *)

SetupCalled(r) ==
    /\ req[r].pc = "idle"
    /\ req' = [req EXCEPT ![r] = [Idle EXCEPT !.op = "setup", !.pc = "reading"]]
    /\ UNCHANGED <<now, storeVars, sessionVars, totpVars, used, historyVars>>

\* PASSWORD_ALREADY_SET, or on to hashPassword and the update.
SetupReads(r) ==
    /\ req[r].pc = "read"
    /\ req[r].op = "setup"
    /\ req' = IF req[r].seenPassword THEN Answered(r)
              ELSE [req EXCEPT ![r].pc = "updating"]
    /\ UNCHANGED <<now, storeVars, sessionVars, totpVars, used, historyVars>>

PasswordStored(r) ==
    /\ req[r].pc = "updating"
    /\ req[r].op = "setup"
    /\ ~password
    /\ password' = TRUE
    /\ req' = [req EXCEPT ![r].pc = "updated"]
    /\ UNCHANGED <<now, totp, sessionVars, totpVars, used, historyVars>>

PasswordRefused(r) ==
    /\ req[r].pc = "updating"
    /\ req[r].op = "setup"
    /\ password
    /\ req' = Answered(r)
    /\ UNCHANGED <<now, storeVars, sessionVars, totpVars, used, historyVars>>

SetupAnswered(r) ==
    /\ req[r].pc = "updated"
    /\ req[r].op = "setup"
    /\ CreatesSession(r, FALSE)
    /\ UNCHANGED <<now, storeVars, totpVars, historyVars>>

LoginCalled(r) ==
    /\ req[r].pc = "idle"
    /\ req' = [req EXCEPT ![r] = [Idle EXCEPT !.op = "login", !.pc = "reading"]]
    /\ UNCHANGED <<now, storeVars, sessionVars, totpVars, used, historyVars>>

\* PASSWORD_NOT_SET or RATE_LIMITED.
LoginRefused(r) ==
    /\ req[r].pc = "read"
    /\ req[r].op = "login"
    /\ req' = Answered(r)
    /\ UNCHANGED <<now, storeVars, sessionVars, totpVars, used, historyVars>>

LoginHashes(r) ==
    /\ req[r].pc = "read"
    /\ req[r].op = "login"
    /\ req[r].seenPassword
    /\ req' = [req EXCEPT ![r].pc = "hashing"]
    /\ UNCHANGED <<now, storeVars, sessionVars, totpVars, used, historyVars>>

PasswordWrong(r) ==
    /\ req[r].pc = "hashing"
    /\ req' = Answered(r)
    /\ UNCHANGED <<now, storeVars, sessionVars, totpVars, used, historyVars>>

LogsIn(r) ==
    /\ req[r].pc = "hashing"
    /\ req[r].seenTotp = None
    /\ CreatesSession(r, FALSE)
    /\ UNCHANGED <<now, storeVars, totpVars, historyVars>>

\* createTotpLoginChallenge.
AsksForCode(r) ==
    /\ req[r].pc = "hashing"
    /\ req[r].seenTotp # None
    /\ \E c \in Challenges \ used :
          /\ used' = used \union {c}
          /\ challenges' = challenges \union {c}
          /\ challengeExpiresAt' = [challengeExpiresAt EXCEPT ![c] = now + LoginTtl]
    /\ req' = Answered(r)
    /\ UNCHANGED <<now, storeVars, sessionVars, enrolments, enrolmentExpiresAt, historyVars>>

\* validTotpLoginChallenge.
VerifyCalled(r, c) ==
    /\ req[r].pc = "idle"
    /\ c \in used
    /\ IF c \in challenges /\ challengeExpiresAt[c] > now
       THEN /\ req' = [req EXCEPT ![r] =
                  [Idle EXCEPT !.op = "verify", !.pc = "reading", !.about = c]]
            /\ UNCHANGED challenges
       ELSE challenges' = challenges \ {c} /\ UNCHANGED req
    /\ UNCHANGED <<now, storeVars, sessionVars, enrolments, enrolmentExpiresAt,
                   challengeExpiresAt, used, historyVars>>

\* RATE_LIMITED or INVALID_TOTP.  A challenge is made when the file has a
\* secret, which is never removed: TOTP_NOT_ENABLED cannot come up.
VerifyRefused(r) ==
    /\ req[r].pc = "read"
    /\ req[r].op = "verify"
    /\ req' = Answered(r)
    /\ UNCHANGED <<now, storeVars, sessionVars, totpVars, used, historyVars>>

Verifies(r) ==
    /\ req[r].pc = "read"
    /\ req[r].op = "verify"
    /\ challenges' = challenges \ {req[r].about}
    /\ CreatesSession(r, TRUE)
    /\ UNCHANGED <<now, storeVars, enrolments, enrolmentExpiresAt,
                   challengeExpiresAt, historyVars>>

-----------------------------------------------------------------------------
Tick ==
    /\ now < MaxTime
    /\ now' = now + 1
    /\ UNCHANGED <<storeVars, sessionVars, totpVars, req, used, historyVars>>

Called(r) ==
    \/ \E op \in SessionOps, s \in SessionIds, e \in Enrolments \union {None} :
          s \in used /\ SessionRequestCalled(r, op, s, e)
    \/ SetupCalled(r)
    \/ LoginCalled(r)
    \/ \E c \in Challenges : VerifyCalled(r, c)

Continues(r) ==
    \/ ReadOpens(r) \/ CheckFails(r) \/ ChecksAgain(r) \/ RequestFails(r)
    \/ AccessAccepted(r) \/ AccessAnswered(r) \/ SocketOpens(r) \/ SocketCloses(r) \/ Logout(r)
    \/ EnrolReads(r) \/ EnrolAnswered(r) \/ EnrolmentExpired(r)
    \/ ConfirmRefused(r) \/ ConfirmUpdates(r)
    \/ TotpStored(r) \/ TotpRefused(r) \/ Confirmed(r)
    \/ SetupReads(r) \/ PasswordStored(r) \/ PasswordRefused(r) \/ SetupAnswered(r)
    \/ LoginRefused(r) \/ LoginHashes(r) \/ PasswordWrong(r) \/ LogsIn(r) \/ AsksForCode(r)
    \/ VerifyRefused(r) \/ Verifies(r)

Next == Tick \/ \E r \in Requests : Called(r) \/ Continues(r)

Spec == Init /\ [][Next]_vars

-----------------------------------------------------------------------------
(* Properties.                                                              *)

\* What a request is let through for was so: its session was there, not expired
\* and, if a second factor was stored, verified, at a moment while the request
\* was checked, whatever was revoked or stored during its reads.
AcceptedWasValid ==
    \A r \in Requests :
        req[r].session # None /\ req[r].pc \notin {"checking", "checked"} => req[r].valid

\* Of several enrolments confirmed at once, the one whose confirmation
\* succeeds is the one whose secret is stored.
ConfirmedIsStored == \A c \in confirmed : c[2] = totp

\* Whoever confirms an enrolment stays signed in, until it logs out or its
\* session expires: said of a session that makes one request at a time.
ConfirmingSessionKept ==
    \A c \in confirmed :
        \/ c[1] \in sessions \intersect verified
        \/ Expired(c[1]) \/ c[1] \in loggedOut \union overlapped

\* The release notes say so of every session.
ConfirmingSessionPreserved ==
    \A c \in confirmed :
        c[1] \in sessions \intersect verified \/ Expired(c[1]) \/ c[1] \in loggedOut

\* A session that logged out, even while it confirmed an enrolment, never comes
\* back.
LoggedOutStaysOut == loggedOut \intersect sessions = {}

\* A socket that opened while its session was there closes with it, whether the
\* session is logged out, found expired or replaced by an enrolment.
RevokedSocketsClose ==
    \A r \in Requests : req[r].pc = "open" /\ req[r].present => req[r].session \in sessions
=============================================================================
