SPECIFICATION Spec
CONSTANTS
    Minters = {w1, w2}
    Verifiers = {v}
    Asks <- MCAsks
    Config <- MCConfig
    DefaultTtl = 2
    KeysMaxTtl = 3
    ChatWires = {"chat"}
    WiresOf <- MCWiresOf
    MaxKeys = 2
    MaxTime = 3
INVARIANTS TypeOK VerdictWasRight GrantsWithinPolicy ListedIsCallable LifetimeWithinPolicy
CHECK_DEADLOCK FALSE
