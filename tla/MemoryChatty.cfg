SPECIFICATION Spec
CONSTANTS
    r1 = r1
    r2 = r2
    r3 = r3
    r4 = r4
    steady = steady
    flaky = flaky
    chatty = chatty
    None = None
    Records = {r1, r2, r3}
    Severe = {r2}
    MaxFailures = 0
    Capacity = 2
    FlushOnClose = TRUE
    Targets = {chatty}
    Unreliable = {}
    Chatty = {chatty}
INVARIANT
    NothingLost
