SPECIFICATION AlertsSpec
CONSTANTS
    Showers = {s1, s2}
    Waiters = {w1, w2}
    Users = {u1, u2}
    Dropper = dropper
    Buttons = {zero, ok}
    Unpressed = zero
    Null = null
SYMMETRY ThreadSymmetry
INVARIANTS AlertsTypeOK CurrentAlertAlive NoLostWakeup
PROPERTY ShowEndsAnswered
CHECK_DEADLOCK FALSE
