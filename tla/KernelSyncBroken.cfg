CONSTANTS
    s1 = s1
    s2 = s2
    p1 = p1
    u1 = u1
    wg0 = wg0
    wg1 = wg1
    c1 = c1
    c2 = c2
    Server = {s1, s2}
    Peer = {}
    User = {}
    Owner <- MCOwner
    ModeOf <- MCAllLocal
    Handler = {h1}
    Runner = {r1}
    NoServer = NoServer
    Iface = {wg0, wg1}
    IfaceOf <- MCOwnIface
    Conf = {c1}
    InitConf = c1
    PortOf <- MCPortOf
    Broken = {s2}
    Slot = {o1, o2}
    Reconciler = Reconciler
    Nobody = Nobody
    NoDevice = NoDevice
    NoOp = NoOp
    MaxFaults = 1
SPECIFICATION KSpec
PROPERTIES GuardsHeal
