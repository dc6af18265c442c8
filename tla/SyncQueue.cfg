\* One local server with two peers, two concurrent requests, and a spare runner
\* so that a second goroutine for the same server could start.
CONSTANTS
    s1 = s1
    p1 = p1
    p2 = p2
    u1 = u1
    Server = {s1}
    Peer = {p1, p2}
    User = {u1}
    Owner <- MCOwner
    ModeOf <- MCModeOf
    Handler = {h1, h2}
    Runner = {r1, r2}
    NoServer = NoServer
SPECIFICATION Spec
INVARIANTS TypeOK OneRunnerPerServer NoLostChange
PROPERTIES TeardownIsTerminal KeepsThePromise
