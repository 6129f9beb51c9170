SPECIFICATION Spec
CONSTANTS
    Requests = {r1, r2}
    SessionIds = {s1, s2}
    Enrolments = {e1, e2}
    Challenges = {c1}
    None = None
    SessionTtl = 1
    EnrolmentTtl = 1
    LoginTtl = 1
    MaxTime = 1
SYMMETRY Symmetry
INVARIANTS
    AcceptedWasValid
    ConfirmedIsStored
    ConfirmingSessionKept
    LoggedOutStaysOut
    RevokedSocketsClose
CHECK_DEADLOCK FALSE
