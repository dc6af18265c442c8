CONSTANTS
    User = {u1}
    Token = {t1}
    Request = {q1}
    Row = {1, 2, 3}
    Handler = {h1, h2}
    Octet = 5
    Net <- MCHalfBlock
    NoAddress = NoAddress
    NoUser = NoUser
    NoId = NoId
    NoPeer = NoPeer
SYMMETRY MCSymmetry
SPECIFICATION PSpec
INVARIANTS AddressesFit
