CONSTANTS
    User = {u1}
    Token = {t1, t2}
    Request = {q1}
    Row = {1, 2, 3}
    Handler = {h1, h2}
    Octet = 5
    Net <- MCWholeBlock
    NoAddress = NoAddress
    NoUser = NoUser
    NoId = NoId
    NoPeer = NoPeer
SYMMETRY MCSymmetry
SPECIFICATION PSpec
INVARIANTS PTypeOK RequestOnce AnswersAgree AddressesFit RemovalIsFinal
