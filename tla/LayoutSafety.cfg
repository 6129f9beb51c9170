SPECIFICATION Spec
CONSTANTS
    Clients = {c1, c2}
    Edits = {e1, e2, e3}
    NoLayout = NoLayout
SYMMETRY Symmetry
INVARIANTS
    KnownRevisionIsServers
    SavedEditsStay
    RestingEditIsKept
CHECK_DEADLOCK FALSE
